---- MODULE Spec2Model ----
(***************************************************************************)
(* Discrete Elastic Rod simulator (src/DER.py): the implicit-Euler Newton  *)
(* step objfun, the frame kinematics it calls, the force assembly and the  *)
(* time-stepping loop of the main script.                                  *)
(*                                                                         *)
(* Numbers.  The code computes in IEEE doubles.  The model computes in     *)
(* exact rationals extended with +inf, -inf and NaN (a pair <<n, d>>,      *)
(* d >= 0, in lowest terms; d = 0 is inf for n = 1 or -1 and NaN for       *)
(* n = 0), on the configurations in which every square root the code       *)
(* takes is rational: rods whose edges lie along the coordinate axes.      *)
(* Angles are measured in quarter turns, so that cos and sin of every      *)
(* angle that occurs are 0, 1 or -1.                                       *)
(*                                                                         *)
(* Linear solve.  Only the forces (the gradients of the energies) are      *)
(* modelled, not their Hessians.  np.linalg.solve is a nondeterministic    *)
(* choice: any correction that puts the free node on a lattice site and    *)
(* the free twist on a quarter turn, the zero correction exactly when the  *)
(* restricted residual is zero, an all-NaN correction when the residual    *)
(* is not finite, or a raised error (action SolveFails).                   *)
(*                                                                         *)
(* Units.  tol, dt, the stiffnesses, the masses and gravity are given in   *)
(* model units that keep the order relations of the script (tol is a       *)
(* positive threshold on the sum of |f_free|) and let the loop both exit   *)
(* after one pass and go on for several.                                   *)
(*                                                                         *)
(* Arrays.  q0, q and qGuess are references into a heap of arrays, so that *)
(* a copy and an alias differ; refTwist is the one array that getRefTwist  *)
(* writes in place.  atCall and returned record the arguments of the       *)
(* current call of objfun and what it returned.  Plotting, printing and    *)
(* the recorded end-node history of the script are left out.               *)
(*                                                                         *)
(* Local([x \in {e} |-> body]) is body with the local variable x = e.      *)
(***************************************************************************)
EXTENDS Integers, Sequences, FiniteSets

\* ---------------------------------------------------------------- floats

Abs(x) == IF x < 0 THEN -x ELSE x

Sign(x) == IF x > 0 THEN 1 ELSE IF x < 0 THEN -1 ELSE 0

RECURSIVE Gcd(_, _)
Gcd(a, b) == IF b = 0 THEN a ELSE Gcd(b, a % b)

Rat(n, d) ==
  IF d = 0 THEN <<Sign(n), 0>>
  ELSE IF d = 1 THEN <<n, 1>>
  ELSE LET g == Gcd(Abs(n), Abs(d))
       IN  <<(Sign(d) * n) \div g, Abs(d) \div g>>

R(n) == <<n, 1>>

NaN == <<0, 0>>

Zero == <<0, 1>>

One == <<1, 1>>

Half == <<1, 2>>

IsNaN(a) == a[2] = 0 /\ a[1] = 0

IsInf(a) == a[2] = 0 /\ a[1] # 0

IsFinite(a) == a[2] # 0

RAdd(a, b) ==
  IF IsInf(a) /\ IsInf(b) THEN (IF a[1] = b[1] THEN a ELSE NaN)
  ELSE IF a[2] = 1 /\ b[2] = 1 THEN <<a[1] + b[1], 1>>
  ELSE Rat(a[1] * b[2] + b[1] * a[2], a[2] * b[2])

RNeg(a) == <<-a[1], a[2]>>

RSub(a, b) == RAdd(a, RNeg(b))

RMul(a, b) ==
  IF a[2] = 1 /\ b[2] = 1 THEN <<a[1] * b[1], 1>>
  ELSE Rat(a[1] * b[1], a[2] * b[2])

RInv(a) == Rat(a[2], a[1])

RDiv(a, b) == RMul(a, RInv(b))

\* a < b as IEEE compares: false as soon as one side is NaN
RLess(a, b) ==
  IF IsNaN(a) \/ IsNaN(b) THEN FALSE
  ELSE IF IsInf(a) /\ IsInf(b) THEN a[1] < b[1]
  ELSE a[1] * b[2] < b[1] * a[2]

\* a faulty variant: not (a <= b), true as soon as one side is NaN
RGreaterOrUnordered(a, b) == IF IsNaN(a) \/ IsNaN(b) THEN TRUE ELSE RLess(b, a)

RGreater(a, b) == RLess(b, a)

REq(a, b) == ~IsNaN(a) /\ ~IsNaN(b) /\ a = b

RAbs(a) == <<Abs(a[1]), a[2]>>

\* the exact square root; it is taken only where it is rational
ISqrt(n) == CHOOSE r \in 0..n : r * r = n

RSqrt(a) ==
  IF IsNaN(a) \/ a[1] < 0 THEN NaN
  ELSE IF IsInf(a) THEN a
  ELSE <<ISqrt(a[1]), ISqrt(a[2])>>

\* ------------------------------------------------------------- 3-vectors

Vec(x, y, z) == <<R(x), R(y), R(z)>>

VAdd(a, b) == <<RAdd(a[1], b[1]), RAdd(a[2], b[2]), RAdd(a[3], b[3])>>

VSub(a, b) == <<RSub(a[1], b[1]), RSub(a[2], b[2]), RSub(a[3], b[3])>>

VScale(s, a) == <<RMul(s, a[1]), RMul(s, a[2]), RMul(s, a[3])>>

VDivide(a, s) == <<RDiv(a[1], s), RDiv(a[2], s), RDiv(a[3], s)>>

VNeg(a) == <<RNeg(a[1]), RNeg(a[2]), RNeg(a[3])>>

Dot(a, b) == RAdd(RAdd(RMul(a[1], b[1]), RMul(a[2], b[2])), RMul(a[3], b[3]))

Cross(a, b) ==
  <<RSub(RMul(a[2], b[3]), RMul(a[3], b[2])),
    RSub(RMul(a[3], b[1]), RMul(a[1], b[3])),
    RSub(RMul(a[1], b[2]), RMul(a[2], b[1]))>>

Norm(a) == RSqrt(Dot(a, a))

VFinite(a) == IsFinite(a[1]) /\ IsFinite(a[2]) /\ IsFinite(a[3])

\* ---------------------------------------------------------------- angles

\* np.arctan2(y, x) in quarter turns, for the arguments whose angle is a
\* whole number of quarter turns
ArcTan2(y, x) ==
  IF IsNaN(y) \/ IsNaN(x) THEN NaN
  ELSE IF y[1] = 0 THEN (IF x[1] < 0 THEN R(2) ELSE Zero)
  ELSE CHOOSE k \in {R(1), R(-1)} : x[1] = 0 /\ Sign(k[1]) = Sign(y[1])

\* np.cos and np.sin of an angle given in quarter turns
Cos(theta) ==
  IF ~IsFinite(theta) THEN NaN
  ELSE CHOOSE c \in {One, Zero, R(-1)} :
         /\ theta[2] = 1
         /\ c = CASE theta[1] % 4 = 0 -> One
                  [] theta[1] % 4 = 2 -> R(-1)
                  [] OTHER -> Zero

Sin(theta) ==
  IF ~IsFinite(theta) THEN NaN
  ELSE CHOOSE s \in {One, Zero, R(-1)} :
         /\ theta[2] = 1
         /\ s = CASE theta[1] % 4 = 1 -> One
                  [] theta[1] % 4 = 3 -> R(-1)
                  [] OTHER -> Zero

\* --------------------------------------------------- geometry primitives

\* a local variable of the code: [x \in {e} |-> body] is the code that
\* follows the assignment x = e, and Local gives its value
Local(f) == f[CHOOSE x \in DOMAIN f : TRUE]

\* a faulty variant: the sign is never changed
signedAngleUnsigned(u, v, n) ==
  Local([w \in {Cross(u, v)} |-> ArcTan2(Norm(w), Dot(u, v))])

\* a faulty variant: np.dot(n, w) <= 0 for np.dot(n, w) < 0
signedAngleNonStrict(u, v, n) ==
  Local([w \in {Cross(u, v)} |->
  Local([angle \in {ArcTan2(Norm(w), Dot(u, v))} |->
    IF ~RLess(Zero, Dot(n, w)) THEN RNeg(angle) ELSE angle])])

signedAngle(u, v, n) ==
  Local([w \in {Cross(u, v)} |->
  Local([angle \in {ArcTan2(Norm(w), Dot(u, v))} |->
    IF RLess(Dot(n, w), Zero) THEN RNeg(angle) ELSE angle])])

\* a faulty variant: np.cross(v, z) for np.cross(z, v)
rotateAxisAngleCrossSwapped(v, z, theta) ==
  IF REq(theta, Zero) THEN v
  ELSE Local([c \in {Cos(theta)} |->
       Local([s \in {Sin(theta)} |->
         VAdd(VAdd(VScale(c, v), VScale(s, Cross(v, z))),
              VScale(RMul(Dot(z, v), RSub(One, c)), z))])])

rotateAxisAngle(v, z, theta) ==
  IF REq(theta, Zero) THEN v
  ELSE Local([c \in {Cos(theta)} |->
       Local([s \in {Sin(theta)} |->
         VAdd(VAdd(VScale(c, v), VScale(s, Cross(z, v))),
              VScale(RMul(Dot(z, v), RSub(One, c)), z))])])

\* a faulty variant: the test for parallel tangents left out
parallel_transportUnguarded(u, t1, t2) ==
  Local([b0 \in {Cross(t1, t2)} |->
         Local([b1 \in {VDivide(b0, Norm(b0))} |->
         Local([b2 \in {VSub(b1, VScale(Dot(b1, t1), t1))} |->
         Local([b3 \in {VDivide(b2, Norm(b2))} |->
         Local([b4 \in {VSub(b3, VScale(Dot(b3, t2), t2))} |->
         Local([b \in {VDivide(b4, Norm(b4))} |->
         Local([n1 \in {Cross(t1, b)} |->
         Local([n2 \in {Cross(t2, b)} |->
           VAdd(VAdd(VScale(Dot(u, t1), t2), VScale(Dot(u, n1), n2)),
                VScale(Dot(u, b), b))])])])])])])])])

\* a faulty variant: the part of u along t1 is kept along t1
parallel_transportOldTangent(u, t1, t2) ==
  Local([b0 \in {Cross(t1, t2)} |->
    IF REq(Norm(b0), Zero) THEN u
    ELSE Local([b1 \in {VDivide(b0, Norm(b0))} |->
         Local([b2 \in {VSub(b1, VScale(Dot(b1, t1), t1))} |->
         Local([b3 \in {VDivide(b2, Norm(b2))} |->
         Local([b4 \in {VSub(b3, VScale(Dot(b3, t2), t2))} |->
         Local([b \in {VDivide(b4, Norm(b4))} |->
         Local([n1 \in {Cross(t1, b)} |->
         Local([n2 \in {Cross(t2, b)} |->
           VAdd(VAdd(VScale(Dot(u, t1), t1), VScale(Dot(u, n1), n2)),
                VScale(Dot(u, b), b))])])])])])])])])

parallel_transport(u, t1, t2) ==
  Local([b0 \in {Cross(t1, t2)} |->
    IF REq(Norm(b0), Zero) THEN u
    ELSE Local([b1 \in {VDivide(b0, Norm(b0))} |->
         Local([b2 \in {VSub(b1, VScale(Dot(b1, t1), t1))} |->
         Local([b3 \in {VDivide(b2, Norm(b2))} |->
         Local([b4 \in {VSub(b3, VScale(Dot(b3, t2), t2))} |->
         Local([b \in {VDivide(b4, Norm(b4))} |->
         Local([n1 \in {Cross(t1, b)} |->
         Local([n2 \in {Cross(t2, b)} |->
           VAdd(VAdd(VScale(Dot(u, t1), t2), VScale(Dot(u, n1), n2)),
                VScale(Dot(u, b), b))])])])])])])])])

\* ------------------------------------------------------ frame kinematics

\* len(q)
Len0(q) == Cardinality(DOMAIN q)

\* q[i : i + 3]
Slice3(q, i) == <<q[i], q[i + 1], q[i + 2]>>

\* ne = int((len(q)+1)/4 - 1)
NumEdges(q) == ((Len0(q) + 1) \div 4) - 1

computeTangent(q) ==
  [c \in 0..(NumEdges(q) - 1) |->
     Local([dx \in {VSub(Slice3(q, 4 * c + 4), Slice3(q, 4 * c))} |->
       VDivide(dx, Norm(dx))])]

\* the value of d1_first after the loop body has run for edge c
SpaceParallelD1(d1_first, tangent) ==
  LET d[c \in DOMAIN tangent] ==
        IF c = 0 THEN d1_first
        ELSE Local([t \in {tangent[c]} |->
             Local([p \in {parallel_transport(d[c - 1], tangent[c - 1], t)} |->
             Local([p2 \in {VSub(p, VScale(Dot(p, t), t))} |->
               VDivide(p2, Norm(p2))])])])
  IN  d

\* a faulty variant: d2 = cross(t0, d1_first), with the tangent of the edge
\* before
computeSpaceParallelOldTangent(d1_first, q) ==
  Local([tangent \in {computeTangent(q)} |->
  Local([d1 \in {SpaceParallelD1(d1_first, tangent)} |->
    [d1 |-> d1,
     d2 |-> [c \in DOMAIN tangent |->
               Cross(tangent[IF c = 0 THEN 0 ELSE c - 1], d1[c])]]])])

computeSpaceParallel(d1_first, q) ==
  Local([tangent \in {computeTangent(q)} |->
  Local([d1 \in {SpaceParallelD1(d1_first, tangent)} |->
    [d1 |-> d1,
     d2 |-> [c \in DOMAIN tangent |-> Cross(tangent[c], d1[c])]]])])

\* theta = q[3::4]
TwistAngles(q) == [c \in 0..((Len0(q) \div 4) - 1) |-> q[4 * c + 3]]

computeMaterialFrame(a1, a2, theta) ==
  [m1 |-> [c \in DOMAIN theta |->
             VAdd(VScale(Cos(theta[c]), a1[c]), VScale(Sin(theta[c]), a2[c]))],
   m2 |-> [c \in DOMAIN theta |->
             VAdd(VScale(RNeg(Sin(theta[c])), a1[c]), VScale(Cos(theta[c]), a2[c]))]]

computeTimeParallel(a1_old, q0, q) ==
  Local([tangent0 \in {computeTangent(q0)} |->
  Local([tangent \in {computeTangent(q)} |->
  Local([a1 \in {[c \in 0..(NumEdges(q) - 1) |->
          Local([t \in {tangent[c]} |->
          Local([a1_tmp \in {parallel_transport(a1_old[c], tangent0[c], t)} |->
          Local([a1_c \in {VSub(a1_tmp, VScale(Dot(a1_tmp, t), t))} |->
            VDivide(a1_c, Norm(a1_c))])])])]} |->
    [a1 |-> a1,
     a2 |-> [c \in 0..(NumEdges(q) - 1) |-> Cross(tangent[c], a1[c])]]])])])

\* a faulty variant: the signed angle is returned without the guess
computeReferenceTwistNoGuess(u1, u2, t1, t2, refTwist) ==
  Local([guess \in {IF refTwist = <<>> THEN Zero ELSE refTwist} |->
  Local([ut \in {parallel_transport(u1, t1, t2)} |->
  Local([ut2 \in {rotateAxisAngle(ut, t2, guess)} |->
    signedAngle(ut2, u2, t2)])])])

\* refTwist = None stands for the guess 0
computeReferenceTwist(u1, u2, t1, t2, refTwist) ==
  Local([guess \in {IF refTwist = <<>> THEN Zero ELSE refTwist} |->
  Local([ut \in {parallel_transport(u1, t1, t2)} |->
  Local([ut2 \in {rotateAxisAngle(ut, t2, guess)} |->
    RAdd(guess, signedAngle(ut2, u2, t2))])])])

\* the array refTwist after the call, which writes its entries 1..ne-1 in place
getRefTwist(a1, tangent, refTwist) ==
  [c \in DOMAIN refTwist |->
     IF c \in 1..(Cardinality(DOMAIN a1) - 1)
     THEN computeReferenceTwist(a1[c - 1], a1[c], tangent[c - 1], tangent[c],
                                refTwist[c])
     ELSE refTwist[c]]

computekappa(node0, node1, node2, m1e, m2e, m1f, m2f) ==
  Local([t0 \in {VDivide(VSub(node1, node0), Norm(VSub(node1, node0)))} |->
  Local([t1 \in {VDivide(VSub(node2, node1), Norm(VSub(node2, node1)))} |->
  Local([kb \in {VDivide(VScale(R(2), Cross(t0, t1)), RAdd(One, Dot(t0, t1)))} |->
  Local([kappa1 \in {RMul(Half, Dot(kb, VAdd(m2e, m2f)))} |->
  Local([kappa2 \in {RNeg(RMul(Half, Dot(kb, VAdd(m1e, m1f))))} |->
    <<kappa1, kappa2>>])])])])])

getKappa(q0, m1, m2) ==
  LET ne == Cardinality(DOMAIN m1)
  IN  [c \in 0..ne |->
         IF c \in 1..(ne - 1)
         THEN computekappa(Slice3(q0, 4 * c - 4), Slice3(q0, 4 * c),
                           Slice3(q0, 4 * c + 4),
                           m1[c - 1], m2[c - 1], m1[c], m2[c])
         ELSE <<Zero, Zero>>]

\* ------------------------------------------------ elastic energy kernels

\* the value None of an argument that was not passed
None == <<>>

\* a faulty variant: the strain without its "- 1"
gradEsNoRestLength(node0, node1, l_k, EA) ==
  Local([edge \in {VSub(node1, node0)} |->
  Local([edgeLen \in {Norm(edge)} |->
  Local([tangent \in {VDivide(edge, edgeLen)} |->
  Local([epsX \in {RDiv(edgeLen, l_k)} |->
  Local([dF_unit \in {VScale(RMul(EA, epsX), tangent)} |->
    [i \in 0..5 |-> IF i < 3 THEN RNeg(dF_unit[i + 1]) ELSE dF_unit[i - 2]]])])])])])

\* gradEs_hessEs: the gradient dF (6 entries)
gradEs(node0, node1, l_k, EA) ==
  Local([edge \in {VSub(node1, node0)} |->
  Local([edgeLen \in {Norm(edge)} |->
  Local([tangent \in {VDivide(edge, edgeLen)} |->
  Local([epsX \in {RSub(RDiv(edgeLen, l_k), One)} |->
  Local([dF_unit \in {VScale(RMul(EA, epsX), tangent)} |->
    [i \in 0..5 |-> IF i < 3 THEN RNeg(dF_unit[i + 1]) ELSE dF_unit[i - 2]]])])])])])

\* one column of gradKappa from its four blocks
KappaColumn(De, Df, the, thf) ==
  [i \in 0..10 |->
     CASE i \in 0..2  -> RNeg(De[i + 1])
       [] i = 3       -> the
       [] i \in 4..6  -> RSub(De[i - 3], Df[i - 3])
       [] i = 7       -> thf
       [] OTHER       -> Df[i - 7]]

\* gradEb_hessEb: kappa1, kappa2 and the two columns of gradKappa (11
\* entries each)
gradKappa(node0, node1, node2, m1e, m2e, m1f, m2f) ==
  Local([ee \in {VSub(node1, node0)} |->
  Local([ef \in {VSub(node2, node1)} |->
  Local([norm_e \in {Norm(ee)} |->
  Local([norm_f \in {Norm(ef)} |->
  Local([te \in {VDivide(ee, norm_e)} |->
  Local([tf \in {VDivide(ef, norm_f)} |->
  Local([kb \in {VDivide(VScale(R(2), Cross(te, tf)), RAdd(One, Dot(te, tf)))} |->
  Local([chi \in {RAdd(One, Dot(te, tf))} |->
  Local([tilde_t \in {VDivide(VAdd(te, tf), chi)} |->
  Local([tilde_d1 \in {VDivide(VAdd(m1e, m1f), chi)} |->
  Local([tilde_d2 \in {VDivide(VAdd(m2e, m2f), chi)} |->
  Local([kappa1 \in {RMul(Half, Dot(kb, VAdd(m2e, m2f)))} |->
  Local([kappa2 \in {RNeg(RMul(Half, Dot(kb, VAdd(m1e, m1f))))} |->
  Local([Dkappa1De \in {VScale(RInv(norm_e),
         VAdd(VScale(RNeg(kappa1), tilde_t), Cross(tf, tilde_d2)))} |->
  Local([Dkappa1Df \in {VScale(RInv(norm_f),
         VSub(VScale(RNeg(kappa1), tilde_t), Cross(te, tilde_d2)))} |->
  Local([Dkappa2De \in {VScale(RInv(norm_e),
         VSub(VScale(RNeg(kappa2), tilde_t), Cross(tf, tilde_d1)))} |->
  Local([Dkappa2Df \in {VScale(RInv(norm_f),
         VAdd(VScale(RNeg(kappa2), tilde_t), Cross(te, tilde_d1)))} |->
    [kappa |-> <<kappa1, kappa2>>,
     g1 |-> KappaColumn(Dkappa1De, Dkappa1Df,
              RNeg(RMul(Half, Dot(kb, m1e))), RNeg(RMul(Half, Dot(kb, m1f)))),
     g2 |-> KappaColumn(Dkappa2De, Dkappa2Df,
              RNeg(RMul(Half, Dot(kb, m2e))), RNeg(RMul(Half, Dot(kb, m2f))))]
  ])])])])])])])])])])])])])])])])])

\* gradEb_hessEb: the gradient dF (11 entries)
gradEb(node0, node1, node2, m1e, m2e, m1f, m2f, kappaBar, l_k, EI1, EI2in) ==
  Local([EI2 \in {IF EI2in = None THEN EI1 ELSE EI2in} |->
  Local([gk \in {gradKappa(node0, node1, node2, m1e, m2e, m1f, m2f)} |->
  Local([dE_dKappa1 \in {RMul(RDiv(EI1, l_k), RSub(gk.kappa[1], kappaBar[1]))} |->
  Local([dE_dKappa2 \in {RMul(RDiv(EI2, l_k), RSub(gk.kappa[2], kappaBar[2]))} |->
    [i \in 0..10 |->
       RAdd(RMul(dE_dKappa1, gk.g1[i]), RMul(dE_dKappa2, gk.g2[i]))]])])])])

\* gradEt_hessEt: gradTwist (11 entries)
gradTwist(node0, node1, node2) ==
  Local([ee \in {VSub(node1, node0)} |->
  Local([ef \in {VSub(node2, node1)} |->
  Local([norm_e \in {Norm(ee)} |->
  Local([norm_f \in {Norm(ef)} |->
  Local([te \in {VDivide(ee, norm_e)} |->
  Local([tf \in {VDivide(ef, norm_f)} |->
  Local([kb \in {VDivide(VScale(R(2), Cross(te, tf)), RAdd(One, Dot(te, tf)))} |->
  Local([g0 \in {VScale(RDiv(RNeg(Half), norm_e), kb)} |->
  Local([g8 \in {VScale(RDiv(Half, norm_f), kb)} |->
  Local([g4 \in {VNeg(VAdd(g0, g8))} |->
    [i \in 0..10 |->
       CASE i \in 0..2  -> g0[i + 1]
         [] i = 3       -> R(-1)
         [] i \in 4..6  -> g4[i - 3]
         [] i = 7       -> One
         [] OTHER       -> g8[i - 7]]])])])])])])])])])])

\* gradEt_hessEt: the gradient dF (11 entries)
gradEt(node0, node1, node2, theta_e, theta_f, refTwist, twistBar, l_k, GJ) ==
  Local([gt \in {gradTwist(node0, node1, node2)} |->
  Local([integratedTwist \in {RSub(RAdd(RSub(theta_f, theta_e), refTwist), twistBar)} |->
  Local([dE_dTau \in {RMul(RDiv(GJ, l_k), integratedTwist)} |->
    [i \in 0..10 |-> RMul(dE_dTau, gt[i])]])])])

\* ----------------------------------------------- Hessians of the kernels

\* np.eye(3)
Id3 == <<Vec(1, 0, 0), Vec(0, 1, 0), Vec(0, 0, 1)>>

\* np.outer(a, b) of two 3-vectors
Outer(a, b) == [i \in 1..3 |-> [j \in 1..3 |-> RMul(a[i], b[j])]]

MAdd(A, B) == [i \in 1..3 |-> [j \in 1..3 |-> RAdd(A[i][j], B[i][j])]]

MSub(A, B) == [i \in 1..3 |-> [j \in 1..3 |-> RSub(A[i][j], B[i][j])]]

MScale(s, A) == [i \in 1..3 |-> [j \in 1..3 |-> RMul(s, A[i][j])]]

MNeg(A) == [i \in 1..3 |-> [j \in 1..3 |-> RNeg(A[i][j])]]

\* np.transpose(A)
Transpose(A) == [i \in 1..3 |-> [j \in 1..3 |-> A[j][i]]]

crossMat(a) ==
  << <<Zero, RNeg(a[3]), a[2]>>,
     <<a[3], Zero, RNeg(a[1])>>,
     <<RNeg(a[2]), a[1], Zero>> >>

\* a faulty variant: 1 / edgeLen - 1 / l_k for 1 / l_k - 1 / edgeLen
hessEsMSwapped(node0, node1, l_k, EA) ==
  Local([edge \in {VSub(node1, node0)} |->
  Local([edgeLen \in {Norm(edge)} |->
    MScale(EA,
      MAdd(MScale(RSub(RInv(edgeLen), RInv(l_k)), Id3),
           MScale(RInv(RMul(edgeLen, edgeLen)),
                  MScale(RInv(edgeLen), Outer(edge, edge)))))])])

\* gradEs_hessEs: the matrix M of the Hessian
hessEsM(node0, node1, l_k, EA) ==
  Local([edge \in {VSub(node1, node0)} |->
  Local([edgeLen \in {Norm(edge)} |->
    MScale(EA,
      MAdd(MScale(RSub(RInv(l_k), RInv(edgeLen)), Id3),
           MScale(RInv(RMul(edgeLen, edgeLen)),
                  MScale(RInv(edgeLen), Outer(edge, edge)))))])])

\* gradEs_hessEs: the Hessian dJ (6 x 6), M on the diagonal blocks and -M
\* off them
hessEs(node0, node1, l_k, EA) ==
  Local([M \in {hessEsM(node0, node1, l_k, EA)} |->
    [i \in 0..5 |-> [j \in 0..5 |->
       IF (i < 3) = (j < 3) THEN M[(i % 3) + 1][(j % 3) + 1]
       ELSE RNeg(M[(i % 3) + 1][(j % 3) + 1])]]])

\* an 11 x 11 array of zeros whose node rows and columns (0:3, 4:7, 8:11)
\* hold the nine 3 x 3 blocks B[r][s], r, s in 1..3
NodeBlocks(B) ==
  [i \in 0..10 |-> [j \in 0..10 |->
     IF i % 4 = 3 \/ j % 4 = 3 THEN Zero
     ELSE B[(i \div 4) + 1][(j \div 4) + 1][(i % 4) + 1][(j % 4) + 1]]]

\* gradEt_hessEt: DDtwist (11 x 11)
hessTwist(node0, node1, node2) ==
  Local([ee \in {VSub(node1, node0)} |->
  Local([ef \in {VSub(node2, node1)} |->
  Local([norm_e \in {Norm(ee)} |->
  Local([norm_f \in {Norm(ef)} |->
  Local([te \in {VDivide(ee, norm_e)} |->
  Local([tf \in {VDivide(ef, norm_f)} |->
  Local([kb \in {VDivide(VScale(R(2), Cross(te, tf)), RAdd(One, Dot(te, tf)))} |->
  Local([chi \in {RAdd(One, Dot(te, tf))} |->
  Local([tilde_t \in {VDivide(VAdd(te, tf), chi)} |->
  Local([D2mDe2 \in {MScale(RDiv(RNeg(Half), RMul(norm_e, norm_e)),
         MAdd(Outer(kb, VAdd(te, tilde_t)),
              MScale(RDiv(R(2), chi), crossMat(tf))))} |->
  Local([D2mDf2 \in {MScale(RDiv(RNeg(Half), RMul(norm_f, norm_f)),
         MSub(Outer(kb, VAdd(tf, tilde_t)),
              MScale(RDiv(R(2), chi), crossMat(te))))} |->
  Local([D2mDfDe \in {MScale(RDiv(Half, RMul(norm_e, norm_f)),
         MSub(MScale(RDiv(R(2), chi), crossMat(te)),
              Outer(kb, tilde_t)))} |->
  Local([D2mDeDf \in {MScale(RDiv(Half, RMul(norm_e, norm_f)),
         MSub(MScale(RDiv(R(-2), chi), crossMat(tf)),
              Outer(kb, tilde_t)))} |->
    NodeBlocks(
      << <<D2mDe2, MAdd(MNeg(D2mDe2), D2mDfDe), MNeg(D2mDfDe)>>,
         <<MAdd(MNeg(D2mDe2), D2mDeDf),
           MAdd(MSub(D2mDe2, MAdd(D2mDeDf, D2mDfDe)), D2mDf2),
           MSub(D2mDfDe, D2mDf2)>>,
         <<MNeg(D2mDeDf), MSub(D2mDeDf, D2mDf2), D2mDf2>> >>)
  ])])])])])])])])])])])])])

\* gradEt_hessEt: the Hessian dJ (11 x 11)
hessEt(node0, node1, node2, theta_e, theta_f, refTwist, twistBar, l_k, GJ) ==
  Local([gt \in {gradTwist(node0, node1, node2)} |->
  Local([DDtwist \in {hessTwist(node0, node1, node2)} |->
  Local([integratedTwist \in {RSub(RAdd(RSub(theta_f, theta_e), refTwist), twistBar)} |->
  Local([dE_dTau \in {RMul(RDiv(GJ, l_k), integratedTwist)} |->
  Local([d2E_dTau2 \in {RDiv(GJ, l_k)} |->
    [i \in 0..10 |-> [j \in 0..10 |->
       RAdd(RMul(dE_dTau, DDtwist[i][j]),
            RMul(d2E_dTau2, RMul(gt[i], gt[j])))]]])])])])])

\* DDkappa1 or DDkappa2 (11 x 11) from its parts: the node blocks, the two
\* twist terms on the diagonal, and the coupled columns 3 and 7 with their
\* transposes as rows 3 and 7
CurvatureHessian(De2, Df2, DfDe, DeDf, Dthetae2, Dthetaf2, DeDthetae, DfDthetae, DeDthetaf, DfDthetaf) ==
  Local([blocks \in {NodeBlocks(
         << <<De2, MAdd(MNeg(De2), DfDe), MNeg(DfDe)>>,
            <<MAdd(MNeg(De2), DeDf),
              MAdd(MSub(MSub(De2, DeDf), DfDe), Df2),
              MSub(DfDe, Df2)>>,
            <<MNeg(DeDf), MSub(DeDf, Df2), Df2>> >>)} |->
  Local([col3 \in {<<VNeg(DeDthetae), VSub(DeDthetae, DfDthetae), DfDthetae>>} |->
  Local([col7 \in {<<VNeg(DeDthetaf), VSub(DeDthetaf, DfDthetaf), DfDthetaf>>} |->
    [i \in 0..10 |-> [j \in 0..10 |->
       CASE i % 4 # 3 /\ j % 4 # 3 -> blocks[i][j]
         [] i = 3 /\ j = 3 -> Dthetae2
         [] i = 7 /\ j = 7 -> Dthetaf2
         [] i % 4 # 3 /\ j = 3 -> col3[(i \div 4) + 1][(i % 4) + 1]
         [] i = 3 /\ j % 4 # 3 -> col3[(j \div 4) + 1][(j % 4) + 1]
         [] i % 4 # 3 /\ j = 7 -> col7[(i \div 4) + 1][(i % 4) + 1]
         [] i = 7 /\ j % 4 # 3 -> col7[(j \div 4) + 1][(j % 4) + 1]
         [] OTHER -> Zero]]])])])

\* 1.0 / norm_e * (0.5 * np.dot(kb,m) * tilde_t - 1.0 / chi * np.cross(tf,m))
DkappaDeDtheta(norm_e, kb, m, tilde_t, chi, tf) ==
  VScale(RInv(norm_e),
         VSub(VScale(RMul(Half, Dot(kb, m)), tilde_t),
              VScale(RInv(chi), Cross(tf, m))))

\* 1.0 / norm_f * (0.5 * np.dot(kb,m) * tilde_t + 1.0 / chi * np.cross(te,m))
DkappaDfDtheta(norm_f, kb, m, tilde_t, chi, te) ==
  VScale(RInv(norm_f),
         VAdd(VScale(RMul(Half, Dot(kb, m)), tilde_t),
              VScale(RInv(chi), Cross(te, m))))

\* gradEb_hessEb: DDkappa1 and DDkappa2
hessKappa(node0, node1, node2, m1e, m2e, m1f, m2f) ==
  Local([ee \in {VSub(node1, node0)} |->
  Local([ef \in {VSub(node2, node1)} |->
  Local([norm_e \in {Norm(ee)} |->
  Local([norm_f \in {Norm(ef)} |->
  Local([te \in {VDivide(ee, norm_e)} |->
  Local([tf \in {VDivide(ef, norm_f)} |->
  Local([kb \in {VDivide(VScale(R(2), Cross(te, tf)), RAdd(One, Dot(te, tf)))} |->
  Local([chi \in {RAdd(One, Dot(te, tf))} |->
  Local([tilde_t \in {VDivide(VAdd(te, tf), chi)} |->
  Local([tilde_d1 \in {VDivide(VAdd(m1e, m1f), chi)} |->
  Local([tilde_d2 \in {VDivide(VAdd(m2e, m2f), chi)} |->
  Local([kappa1 \in {RMul(Half, Dot(kb, VAdd(m2e, m2f)))} |->
  Local([kappa2 \in {RNeg(RMul(Half, Dot(kb, VAdd(m1e, m1f))))} |->
  Local([norm2_e \in {RMul(norm_e, norm_e)} |->
  Local([norm2_f \in {RMul(norm_f, norm_f)} |->
  Local([tt_o_tt \in {Outer(tilde_t, tilde_t)} |->
  Local([tf_c_d2t_o_tt \in {Outer(Cross(tf, tilde_d2), tilde_t)} |->
  Local([te_c_d2t_o_tt \in {Outer(Cross(te, tilde_d2), tilde_t)} |->
  Local([tf_c_d1t_o_tt \in {Outer(Cross(tf, tilde_d1), tilde_t)} |->
  Local([te_c_d1t_o_tt \in {Outer(Cross(te, tilde_d1), tilde_t)} |->
  Local([D2kappa1De2 \in {MAdd(MSub(MScale(RInv(norm2_e),
                   MSub(MSub(MScale(RMul(R(2), kappa1), tt_o_tt), tf_c_d2t_o_tt),
                        Transpose(tf_c_d2t_o_tt))),
                 MScale(RDiv(kappa1, RMul(chi, norm2_e)),
                   MSub(Id3, Outer(te, te)))),
            MScale(RInv(RMul(R(2), norm2_e)), Outer(kb, m2e)))} |->
  Local([D2kappa1Df2 \in {MAdd(MSub(MScale(RInv(norm2_f),
                   MAdd(MAdd(MScale(RMul(R(2), kappa1), tt_o_tt), te_c_d2t_o_tt),
                        Transpose(te_c_d2t_o_tt))),
                 MScale(RDiv(kappa1, RMul(chi, norm2_f)),
                   MSub(Id3, Outer(tf, tf)))),
            MScale(RInv(RMul(R(2), norm2_f)), Outer(kb, m2f)))} |->
  Local([D2kappa1DfDe \in {MAdd(MScale(RDiv(RNeg(kappa1), RMul(RMul(chi, norm_e), norm_f)),
              MAdd(Id3, Outer(te, tf))),
            MScale(RInv(RMul(norm_e, norm_f)),
              MSub(MAdd(MSub(MScale(RMul(R(2), kappa1), tt_o_tt), tf_c_d2t_o_tt),
                        Transpose(te_c_d2t_o_tt)),
                   crossMat(tilde_d2))))} |->
  Local([D2kappa2De2 \in {MSub(MSub(MScale(RInv(norm2_e),
                   MAdd(MAdd(MScale(RMul(R(2), kappa2), tt_o_tt), tf_c_d1t_o_tt),
                        Transpose(tf_c_d1t_o_tt))),
                 MScale(RDiv(kappa2, RMul(chi, norm2_e)),
                   MSub(Id3, Outer(te, te)))),
            MScale(RInv(RMul(R(2), norm2_e)), Outer(kb, m1e)))} |->
  Local([D2kappa2Df2 \in {MSub(MSub(MScale(RInv(norm2_f),
                   MSub(MSub(MScale(RMul(R(2), kappa2), tt_o_tt), te_c_d1t_o_tt),
                        Transpose(te_c_d1t_o_tt))),
                 MScale(RDiv(kappa2, RMul(chi, norm2_f)),
                   MSub(Id3, Outer(tf, tf)))),
            MScale(RInv(RMul(R(2), norm2_f)), Outer(kb, m1f)))} |->
  Local([D2kappa2DfDe \in {MAdd(MScale(RDiv(RNeg(kappa2), RMul(RMul(chi, norm_e), norm_f)),
              MAdd(Id3, Outer(te, tf))),
            MScale(RInv(RMul(norm_e, norm_f)),
              MAdd(MSub(MAdd(MScale(RMul(R(2), kappa2), tt_o_tt), tf_c_d1t_o_tt),
                        Transpose(te_c_d1t_o_tt)),
                   crossMat(tilde_d1))))} |->
    [DDkappa1 |->
       CurvatureHessian(D2kappa1De2, D2kappa1Df2, D2kappa1DfDe,
         Transpose(D2kappa1DfDe),
         RNeg(RMul(Half, Dot(kb, m2e))), RNeg(RMul(Half, Dot(kb, m2f))),
         DkappaDeDtheta(norm_e, kb, m1e, tilde_t, chi, tf),
         DkappaDfDtheta(norm_f, kb, m1e, tilde_t, chi, te),
         DkappaDeDtheta(norm_e, kb, m1f, tilde_t, chi, tf),
         DkappaDfDtheta(norm_f, kb, m1f, tilde_t, chi, te)),
     DDkappa2 |->
       CurvatureHessian(D2kappa2De2, D2kappa2Df2, D2kappa2DfDe,
         Transpose(D2kappa2DfDe),
         RMul(Half, Dot(kb, m1e)), RMul(Half, Dot(kb, m1f)),
         DkappaDeDtheta(norm_e, kb, m2e, tilde_t, chi, tf),
         DkappaDfDtheta(norm_f, kb, m2e, tilde_t, chi, te),
         DkappaDeDtheta(norm_e, kb, m2f, tilde_t, chi, tf),
         DkappaDfDtheta(norm_f, kb, m2f, tilde_t, chi, te))]
  ])])])])])])])])])])])])])])])])])])])])])])])])])])

\* gradEb_hessEb: the Hessian dJ (11 x 11)
hessEb(node0, node1, node2, m1e, m2e, m1f, m2f, kappaBar, l_k, EI1, EI2in) ==
  Local([EI2 \in {IF EI2in = None THEN EI1 ELSE EI2in} |->
  Local([gk \in {gradKappa(node0, node1, node2, m1e, m2e, m1f, m2f)} |->
  Local([hk \in {hessKappa(node0, node1, node2, m1e, m2e, m1f, m2f)} |->
  Local([dE_dKappa1 \in {RMul(RDiv(EI1, l_k), RSub(gk.kappa[1], kappaBar[1]))} |->
  Local([dE_dKappa2 \in {RMul(RDiv(EI2, l_k), RSub(gk.kappa[2], kappaBar[2]))} |->
  Local([d2E_dKappa11 \in {RDiv(EI1, l_k)} |->
  Local([d2E_dKappa22 \in {RDiv(EI2, l_k)} |->
    [i \in 0..10 |-> [j \in 0..10 |->
       RAdd(RAdd(RAdd(RMul(dE_dKappa1, hk.DDkappa1[i][j]),
                      RMul(dE_dKappa2, hk.DDkappa2[i][j])),
                 RMul(d2E_dKappa11, RMul(gk.g1[i], gk.g1[j]))),
            RMul(d2E_dKappa22, RMul(gk.g2[i], gk.g2[j])))]]])])])])])])])

\* ------------------------------------------------------- global assembly

\* np.zeros(n)
Zeros(n) == [i \in 0..(n - 1) |-> Zero]

\* a faulty variant: F[ind] = -dF, which overwrites what is there
ScatterSet(F, ind, dF) ==
  [j \in DOMAIN F |->
     IF \E k \in DOMAIN ind : ind[k] = j
     THEN RNeg(dF[CHOOSE k \in DOMAIN ind : ind[k] = j])
     ELSE F[j]]

\* F[ind] -= dF
ScatterSub(F, ind, dF) ==
  [j \in DOMAIN F |->
     IF \E k \in DOMAIN ind : ind[k] = j
     THEN RSub(F[j], dF[CHOOSE k \in DOMAIN ind : ind[k] = j])
     ELSE F[j]]

\* a faulty variant: six consecutive indices from 4c on
IndSConsecutive(c) == [k \in 0..5 |-> 4 * c + k]

\* ind of getFs: the two nodes of edge c
IndS(c) == [k \in 0..5 |-> IF k < 3 THEN 4 * c + k ELSE 4 * c + k + 1]

\* a faulty variant: np.arange(4*c, 4*c + 11)
IndBFromNode(c) == [k \in 0..10 |-> 4 * c + k]

\* ind of getFb and getFt: np.arange(4*c - 4, 4*c + 7)
IndB(c) == [k \in 0..10 |-> 4 * c - 4 + k]

\* np.zeros((n, n))
Zeros2(n) == [i \in 0..(n - 1) |-> Zeros(n)]

\* the position of the index j in ind
Pos(ind, j) == CHOOSE k \in DOMAIN ind : ind[k] = j

\* J[np.ix_(ind, ind)] -= dJ
ScatterSub2(J, ind, dJ) ==
  [i \in DOMAIN J |-> [j \in DOMAIN J |->
     IF (\E k \in DOMAIN ind : ind[k] = i) /\ (\E k \in DOMAIN ind : ind[k] = j)
     THEN RSub(J[i][j], dJ[Pos(ind, i)][Pos(ind, j)])
     ELSE J[i][j]]]

getFs(q, EA, refLen) ==
  LET ndof == Len0(q)
      nv == (ndof + 1) \div 4
      ne == nv - 1
      Fs[n \in 0..ne] ==
        IF n = 0 THEN Zeros(ndof)
        ELSE LET c == n - 1
             IN  ScatterSub(Fs[n - 1], IndS(c),
                   gradEs(Slice3(q, 4 * c), Slice3(q, 4 * c + 4), refLen[c], EA))
  IN  Fs[ne]

getFb(q, m1, m2, kappaBar, EI, voronoiRefLen) ==
  LET ndof == Len0(q)
      nv == (ndof + 1) \div 4
      ne == nv - 1
      Fb[n \in 0..(ne - 1)] ==
        IF n = 0 THEN Zeros(ndof)
        ELSE LET c == n
             IN  ScatterSub(Fb[n - 1], IndB(c),
                   gradEb(Slice3(q, 4 * c - 4), Slice3(q, 4 * c),
                          Slice3(q, 4 * c + 4),
                          m1[c - 1], m2[c - 1], m1[c], m2[c],
                          kappaBar[c], voronoiRefLen[c], EI, None))
  IN  Fb[ne - 1]

getFt(q, refTwist, twistBar, GJ, voronoiRefLen) ==
  LET ndof == Len0(q)
      nv == (ndof + 1) \div 4
      ne == nv - 1
      Ft[n \in 0..(ne - 1)] ==
        IF n = 0 THEN Zeros(ndof)
        ELSE LET c == n
             IN  ScatterSub(Ft[n - 1], IndB(c),
                   gradEt(Slice3(q, 4 * c - 4), Slice3(q, 4 * c),
                          Slice3(q, 4 * c + 4),
                          q[4 * c - 1], q[4 * c + 3],
                          refTwist[c], twistBar[c], voronoiRefLen[c], GJ))
  IN  Ft[ne - 1]

\* ------------------------------------------------------ the main script

\* node layouts at t = 0 (nodes): a straight rod and a rod with a bend
Layouts ==
  { <<Vec(0, 0, 0), Vec(1, 0, 0), Vec(2, 0, 0)>>,
    <<Vec(0, 0, 0), Vec(1, 0, 0), Vec(1, 1, 0)>> }

\* the acceleration g of the external force: none, or gravity along -z
Gravity == { Vec(0, 0, 0), Vec(0, 0, -10000) }

dt == Rat(1, 100)

tol == Rat(9, 2)

\* mass per edge, and the cross-sectional radius
dm == Rat(2, 10000)

r0 == R(1)

\* massVector: half an edge mass at the end nodes, a full one inside,
\* and 1/2 * dm * r0**2 for every twist angle
MassVector(nv) ==
  [i \in 0..(4 * nv - 2) |->
     IF i % 4 = 3 THEN RMul(RMul(Half, dm), RMul(r0, r0))
     ELSE IF i \div 4 = 0 \/ i \div 4 = nv - 1 THEN RDiv(dm, R(2))
     ELSE dm]

\* Fg[ind] = massVector[ind] * g for the three coordinates of every node
GravityForce(massVector, g) ==
  [i \in DOMAIN massVector |->
     IF i % 4 = 3 THEN Zero ELSE RMul(massVector[i], g[(i % 4) + 1])]

\* q0 at t = 0: the node coordinates, every twist angle zero
InitialDOF(nodes) ==
  [i \in 0..(4 * Len(nodes) - 2) |->
     IF i % 4 = 3 THEN Zero ELSE nodes[(i \div 4) + 1][(i % 4) + 1]]

RefLen(nodes) ==
  [c \in 0..(Len(nodes) - 2) |-> Norm(VSub(nodes[c + 2], nodes[c + 1]))]

VoronoiRefLen(nv, refLen0) ==
  [c \in 0..(nv - 1) |->
     IF c = 0 THEN RMul(Half, refLen0[c])
     ELSE IF c = nv - 1 THEN RMul(Half, refLen0[c - 1])
     ELSE RMul(Half, RAdd(refLen0[c - 1], refLen0[c]))]

\* a1_first: perpendicular to the first tangent, normalised
FirstDirector(t0) ==
  Local([c1 \in {Cross(t0, Vec(0, 0, -1))} |->
  Local([c2 \in {IF RLess(Norm(c1), Rat(1, 1000000)) THEN Cross(t0, Vec(0, 1, 0)) ELSE c1} |->
    VDivide(c2, Norm(c2))])])

\* everything the script builds before its time loop
Setup(nodes, g) ==
  Local([nv0 \in {Len(nodes)} |->
  Local([ndof \in {4 * nv0 - 1} |->
  Local([mv \in {MassVector(nv0)} |->
  Local([q00 \in {InitialDOF(nodes)} |->
  Local([rl \in {RefLen(nodes)} |->
  Local([tangent \in {computeTangent(q00)} |->
  Local([a \in {computeSpaceParallel(FirstDirector(tangent[0]), q00)} |->
  Local([m \in {computeMaterialFrame(a.d1, a.d2, TwistAngles(q00))} |->
    [massVector |-> mv,
     Fg |-> GravityForce(mv, g),
     q0 |-> q00,
     u |-> Zeros(ndof),
     refLen |-> rl,
     voronoiRefLen |-> VoronoiRefLen(nv0, rl),
     a1 |-> a.d1,
     a2 |-> a.d2,
     refTwist |-> getRefTwist(a.d1, tangent, Zeros(nv0)),
     kappaBar |-> getKappa(q00, m.m1, m.m2),
     twistBar |-> Zeros(nv0),
     freeIndex |-> [k \in 0..(ndof - 8) |-> 7 + k]]])])])])])])])])

\* ------------------------------------------------------------- the state

VARIABLES
  heap,          \* the DOF arrays that exist: array id -> its entries
  q0, q, qGuess, \* the script's names q0, q and qGuess: the id each is bound to
                 \* (objfun's own q is the array qGuess)
  u, a1, a2,     \* velocity and reference frame of the script
  refTwist,      \* the one reference-twist array, shared by script and objfun
  a1Iterate, a2Iterate, iter, error,   \* locals of objfun
  pc,            \* "call", "while", "ret", "raised" or "done"
  timeStep,
  Fg, refLen, voronoiRefLen, kappaBar, twistBar, massVector, freeIndex,
  EA, EI, GJ,
  atCall,        \* history: the caller's state when objfun was entered
  returned,      \* history: what the last call of objfun returned
  fn, args, result   \* a library function applied on its own: name, inputs, output

rest == <<Fg, refLen, voronoiRefLen, kappaBar, twistBar, massVector, freeIndex,
          EA, EI, GJ>>

pure == <<fn, args, result>>

vars == <<heap, q0, q, qGuess, u, a1, a2, refTwist, a1Iterate, a2Iterate, iter,
          error, pc, timeStep, rest, atCall, returned, pure>>

\* Newton iterations and time steps that are followed
MaxIter == 3

Nsteps == 3

ArrayIds == 1..3

\* the entries of the array a name is bound to
Val(name) == heap[name]

\* a faulty variant: the name of the array instead of a copy of it
CopyArrayAlias(h, src, live) == [id |-> src, heap |-> h]

\* x.copy(): a new array, with the id no name is bound to
CopyArray(h, src, live) ==
  LET id == CHOOSE i \in ArrayIds : i \notin live /\ \A j \in ArrayIds : j \notin live => i <= j
  IN  [id |-> id, heap |-> [h EXCEPT ![id] = h[src]]]

\* arrays no name is bound to any more are dropped
Collect(h, live) == [i \in ArrayIds |-> IF i \in live THEN h[i] ELSE None]

\* ------------------------------------------------------------- objfun

RECURSIVE SumAbsFirst(_, _)
SumAbsFirst(v, n) ==
  IF n = 0 THEN Zero ELSE RAdd(SumAbsFirst(v, n - 1), RAbs(v[n - 1]))

\* np.sum(np.abs(v))
SumAbs(v) == SumAbsFirst(v, Cardinality(DOMAIN v))

\* f[freeIndex]
Restrict(f, free) == [k \in DOMAIN free |-> f[free[k]]]

\* lines 993-1012 for the guess qv: the frames, the reference twist as
\* getRefTwist leaves it, and the residual f
NewtonResidual(qv, q0v, uv, a1v, refTwistv) ==
  Local([tp \in {computeTimeParallel(a1v, q0v, qv)} |->
  Local([tangent \in {computeTangent(qv)} |->
  Local([refTwist_iterate \in {getRefTwist(tp.a1, tangent, refTwistv)} |->
  Local([theta \in {TwistAngles(qv)} |->
  Local([m \in {computeMaterialFrame(tp.a1, tp.a2, theta)} |->
  Local([Fb \in {getFb(qv, m.m1, m.m2, kappaBar, EI, voronoiRefLen)} |->
  Local([Ft \in {getFt(qv, refTwist_iterate, twistBar, GJ, voronoiRefLen)} |->
  Local([Fs \in {getFs(qv, EA, refLen)} |->
  Local([Forces \in {[i \in DOMAIN qv |-> RAdd(RAdd(RAdd(Fb[i], Ft[i]), Fs[i]), Fg[i])]} |->
  Local([f \in {[i \in DOMAIN qv |->
          RSub(RMul(RDiv(massVector[i], dt),
                    RSub(RDiv(RSub(qv[i], q0v[i]), dt), uv[i])),
               Forces[i])]} |->
    [a1Iterate |-> tp.a1, a2Iterate |-> tp.a2,
     refTwist |-> refTwist_iterate, f |-> f]])])])])])])])])])])

\* a faulty variant: q[k] -= dq_free[k], the index array forgotten
UpdateFirst(qv, free, dq_free) ==
  [i \in DOMAIN qv |->
     IF i \in DOMAIN dq_free THEN RSub(qv[i], dq_free[i]) ELSE qv[i]]

\* q[freeIndex] = q[freeIndex] - dq_free
UpdateFree(qv, free, dq_free) ==
  [i \in DOMAIN qv |->
     IF \E k \in DOMAIN free : free[k] = i
     THEN RSub(qv[i], dq_free[CHOOSE k \in DOMAIN free : free[k] = i])
     ELSE qv[i]]

\* where the free node and the free twist angle may be after a correction
Sites == { Vec(2, 0, 0), Vec(3, 0, 0), Vec(1, 1, 0), Vec(1, 0, -1) }

Twists == { R(0), R(1) }

AllZero(v) == \A k \in DOMAIN v : v[k] = Zero

\* np.linalg.solve(J_free, f_free) when it returns: the corrections dq_free
\* that are followed.  A residual that is not finite gives a correction that
\* is not a number.  Otherwise the solution of J dq = f is zero exactly when
\* f is; of the others, those that leave the rod on a configuration of the
\* model.
linalg_solve(qv, free, f_free) ==
  IF \E k \in DOMAIN f_free : ~IsFinite(f_free[k])
  THEN { [k \in DOMAIN free |-> NaN] }
  ELSE { dq \in { [k \in DOMAIN free |->
                     LET i == free[k]
                     IN  RSub(qv[i], IF i % 4 = 3 THEN tw ELSE site[(i % 4) + 1])]
                  : tw \in Twists, site \in Sites } :
           AllZero(dq) <=> AllZero(f_free) }

\* names bound to no array yet hold 0
Bound(names) == { n \in names : n # 0 }

PureIdle == fn = "none" /\ args = None /\ result = None

Init ==
  \E nodes \in Layouts, g \in Gravity :
    \E s \in {Setup(nodes, g)} :
        /\ heap = [i \in ArrayIds |-> IF i = 1 THEN s.q0 ELSE None]
        /\ q0 = 1 /\ q = 0 /\ qGuess = 0
        /\ u = s.u /\ a1 = s.a1 /\ a2 = s.a2 /\ refTwist = s.refTwist
        /\ a1Iterate = None /\ a2Iterate = None /\ iter = 0 /\ error = None
        /\ pc = "call" /\ timeStep = 0
        /\ Fg = s.Fg /\ refLen = s.refLen /\ voronoiRefLen = s.voronoiRefLen
        /\ kappaBar = s.kappaBar /\ twistBar = s.twistBar
        /\ massVector = s.massVector /\ freeIndex = s.freeIndex
        /\ EA = R(2) /\ EI = One /\ GJ = One
        /\ atCall = None /\ returned = None
        /\ PureIdle

\* a faulty variant: massVector / dt computed in place
RestMassScaled ==
  /\ massVector' = [i \in DOMAIN massVector |-> RDiv(massVector[i], dt)]
  /\ UNCHANGED <<Fg, refLen, voronoiRefLen, kappaBar, twistBar, freeIndex,
                 EA, EI, GJ>>

\* objfun leaves the rest-state data, the stiffnesses, the masses and the
\* partition of the DOFs alone, and so does the loop of the script
RestUntouched == UNCHANGED rest

\* qGuess = q0.copy(); objfun(qGuess, q0, u, a1, a2, ...) up to its loop
Call ==
  /\ pc = "call"
  /\ LET c == CopyArray(heap, q0, Bound({q0, q}))
     IN  /\ qGuess' = c.id
         /\ heap' = Collect(c.heap, Bound({q0, q, c.id}))
  /\ iter' = 0
  /\ error' = RMul(R(10), tol)
  /\ a1Iterate' = None /\ a2Iterate' = None
  /\ atCall' = [qGuess |-> heap'[qGuess'], q0 |-> Val(q0), u |-> u, a1 |-> a1,
                a2 |-> a2, refTwist |-> refTwist]
  /\ pc' = "while"
  /\ RestUntouched
  /\ UNCHANGED <<q0, q, u, a1, a2, refTwist, timeStep, returned, pure>>

\* a faulty variant: the error is taken from the residual of the corrected q
IterateAfterUpdate ==
  /\ pc = "while" /\ RGreater(error, tol) /\ iter < MaxIter
  /\ \E ev \in {NewtonResidual(Val(qGuess), Val(q0), u, a1, refTwist)} :
     \E f_free \in {Restrict(ev.f, freeIndex)} :
     \E dq_free \in linalg_solve(Val(qGuess), freeIndex, f_free) :
     \E q_new \in {UpdateFree(Val(qGuess), freeIndex, dq_free)} :
     \E ev_new \in {NewtonResidual(q_new, Val(q0), u, a1, ev.refTwist)} :
       /\ heap' = [heap EXCEPT ![qGuess] = q_new]
       /\ error' = SumAbs(Restrict(ev_new.f, freeIndex))
       /\ refTwist' = ev.refTwist
       /\ a1Iterate' = ev.a1Iterate
       /\ a2Iterate' = ev.a2Iterate
  /\ iter' = iter + 1
  /\ pc' = "while"
  /\ RestUntouched
  /\ UNCHANGED <<q0, q, qGuess, u, a1, a2, timeStep, atCall, returned, pure>>

\* one pass of the while loop in which the linear solve returns
Iterate ==
  /\ pc = "while" /\ RGreater(error, tol) /\ iter < MaxIter
  /\ \E ev \in {NewtonResidual(Val(qGuess), Val(q0), u, a1, refTwist)} :
     \E f_free \in {Restrict(ev.f, freeIndex)} :
     \E dq_free \in linalg_solve(Val(qGuess), freeIndex, f_free) :
       /\ heap' = [heap EXCEPT
                     ![qGuess] = UpdateFree(Val(qGuess), freeIndex, dq_free)]
       /\ error' = SumAbs(f_free)
       /\ refTwist' = ev.refTwist
       /\ a1Iterate' = ev.a1Iterate
       /\ a2Iterate' = ev.a2Iterate
  /\ iter' = iter + 1
  /\ pc' = "while"
  /\ RestUntouched
  /\ UNCHANGED <<q0, q, qGuess, u, a1, a2, timeStep, atCall, returned, pure>>

\* one pass of the while loop in which np.linalg.solve raises (J_free is
\* singular; a system that holds a nan is solved, to nan): nothing catches
\* it, in objfun or in the script
SolveFails ==
  /\ pc = "while" /\ RGreater(error, tol) /\ iter < MaxIter
  /\ \E ev \in {NewtonResidual(Val(qGuess), Val(q0), u, a1, refTwist)} :
       /\ \A i \in DOMAIN ev.f : IsFinite(ev.f[i])
       /\ refTwist' = ev.refTwist
       /\ a1Iterate' = ev.a1Iterate
       /\ a2Iterate' = ev.a2Iterate
  /\ pc' = "raised"
  /\ RestUntouched
  /\ UNCHANGED <<heap, q0, q, qGuess, u, a1, a2, iter, error, timeStep, atCall,
                 returned, pure>>

\* a faulty variant: the velocity of the free DOFs only
VelocityFree(qv, q0v) ==
  [k \in DOMAIN freeIndex |->
     RDiv(RSub(qv[freeIndex[k]], q0v[freeIndex[k]]), dt)]

\* u = (q - q0) / dt
Velocity(qv, q0v) == [i \in DOMAIN qv |-> RDiv(RSub(qv[i], q0v[i]), dt)]

\* a faulty variant: the loop also ends after two passes
ReturnCapped ==
  /\ pc = "while" /\ (~RGreater(error, tol) \/ iter >= 2)
  /\ IF a1Iterate = None
     THEN /\ pc' = "raised"
          /\ UNCHANGED <<heap, q, u, a1, a2, returned>>
     ELSE /\ pc' = "ret"
          /\ q' = qGuess
          /\ u' = Velocity(Val(qGuess), Val(q0))
          /\ a1' = a1Iterate
          /\ a2' = a2Iterate
          /\ heap' = Collect(heap, Bound({q0, qGuess}))
          /\ returned' = [q |-> Val(qGuess), u |-> u', a1 |-> a1Iterate,
                          a2 |-> a2Iterate, refTwist |-> refTwist]
  /\ RestUntouched
  /\ UNCHANGED <<q0, qGuess, refTwist, a1Iterate, a2Iterate, iter, error,
                 timeStep, atCall, pure>>

\* the loop ends; objfun returns q, u, a1Iterate, a2Iterate and the script
\* binds them to q, u, a1, a2.  (With no pass made a1Iterate is unbound and
\* the return statement raises.)
Return ==
  /\ pc = "while" /\ ~RGreater(error, tol)
  /\ IF a1Iterate = None
     THEN /\ pc' = "raised"
          /\ UNCHANGED <<heap, q, u, a1, a2, returned>>
     ELSE /\ pc' = "ret"
          /\ q' = qGuess
          /\ u' = Velocity(Val(qGuess), Val(q0))
          /\ a1' = a1Iterate
          /\ a2' = a2Iterate
          /\ heap' = Collect(heap, Bound({q0, qGuess}))
          /\ returned' = [q |-> Val(qGuess), u |-> u', a1 |-> a1Iterate,
                          a2 |-> a2Iterate, refTwist |-> refTwist]
  /\ RestUntouched
  /\ UNCHANGED <<q0, qGuess, refTwist, a1Iterate, a2Iterate, iter, error,
                 timeStep, atCall, pure>>

\* a faulty variant: q0 = q.copy() left out
MainTailKeepsQ0 ==
  /\ pc = "ret"
  /\ timeStep' = timeStep + 1
  /\ pc' = IF timeStep + 1 < Nsteps THEN "call" ELSE "done"
  /\ RestUntouched
  /\ UNCHANGED <<heap, q0, q, qGuess, u, a1, a2, refTwist, a1Iterate, a2Iterate,
                 iter, error, atCall, returned, pure>>

\* the rest of the loop body of the script: q0 = q.copy(), the next step
MainTail ==
  /\ pc = "ret"
  /\ LET c == CopyArray(heap, q, Bound({q0, q, qGuess}))
     IN  /\ q0' = c.id
         /\ heap' = Collect(c.heap, Bound({c.id, q, qGuess}))
  /\ timeStep' = timeStep + 1
  /\ pc' = IF timeStep + 1 < Nsteps THEN "call" ELSE "done"
  /\ RestUntouched
  /\ UNCHANGED <<q, qGuess, u, a1, a2, refTwist, a1Iterate, a2Iterate, iter,
                 error, atCall, returned, pure>>

Next == Call \/ Iterate \/ SolveFails \/ Return \/ MainTail

Spec == Init /\ [][Next]_vars

\* ------------------------------------------- computeSpaceParallel alone

\* the six directions along the coordinate axes
Axes ==
  { Vec(1, 0, 0), Vec(-1, 0, 0), Vec(0, 1, 0), Vec(0, -1, 0),
    Vec(0, 0, 1), Vec(0, 0, -1) }

\* largest length of a seed director
MaxSeed == 2

\* seed directors: along an axis, of length 1..MaxSeed
Seeds == { VScale(R(k), e) : k \in 1..MaxSeed, e \in Axes }

\* DOF vectors of rods of four nodes whose edges have length 1 and lie along
\* the axes, with every twist angle zero
Rods ==
  { InitialDOF(<<Vec(0, 0, 0), e1, VAdd(e1, e2), VAdd(VAdd(e1, e2), e3)>>) :
      e1 \in Axes, e2 \in Axes, e3 \in Axes }

\* the script is not running
MainIdle ==
  /\ heap = [i \in ArrayIds |-> None]
  /\ q0 = 0 /\ q = 0 /\ qGuess = 0
  /\ u = None /\ a1 = None /\ a2 = None /\ refTwist = None
  /\ a1Iterate = None /\ a2Iterate = None /\ iter = 0 /\ error = None
  /\ timeStep = 0
  /\ Fg = None /\ refLen = None /\ voronoiRefLen = None
  /\ kappaBar = None /\ twistBar = None
  /\ massVector = None /\ freeIndex = None
  /\ EA = None /\ EI = None /\ GJ = None
  /\ atCall = None /\ returned = None

InitSP ==
  /\ MainIdle
  /\ pc = "apply"
  /\ fn = "computeSpaceParallel"
  /\ args \in [d1_first : Seeds, q : Rods]
  /\ result = None

\* d1, d2 = computeSpaceParallel(d1_first, q)
ApplySP ==
  /\ pc = "apply" /\ fn = "computeSpaceParallel"
  /\ result' = computeSpaceParallel(args.d1_first, args.q)
  /\ pc' = "applied"
  /\ UNCHANGED <<heap, q0, q, qGuess, u, a1, a2, refTwist, a1Iterate, a2Iterate,
                 iter, error, timeStep, rest, atCall, returned, fn, args>>

NextSP == ApplySP

SpecSP == InitSP /\ [][NextSP]_vars

\* ------------------------------------------- getFs, getFb, getFt alone

\* longest edge of a rod the forces are assembled for
MaxEdge == 2

\* edge vectors: along an axis, of length 1..MaxEdge
Edges == { VScale(R(k), e) : k \in 1..MaxEdge, e \in Axes }

\* node positions of rods of three and of four nodes that start at the
\* origin with an edge along x, no edge turning back on the one before it
AsmNodes ==
  { <<Vec(0, 0, 0), e1, VAdd(e1, e2)>> :
      e1 \in {Vec(1, 0, 0), Vec(2, 0, 0)},
      e2 \in { e \in Edges : RGreater(Dot(e, Vec(1, 0, 0)), R(-1)) } }
  \cup
  { <<Vec(0, 0, 0), Vec(1, 0, 0), VAdd(Vec(1, 0, 0), e2),
      VAdd(VAdd(Vec(1, 0, 0), e2), e3)>> :
      e2 \in { e \in Axes : e # Vec(-1, 0, 0) }, e3 \in Edges }

\* a DOF vector: the node coordinates, and theta1 as the twist angle of
\* edge 1 (the others zero)
DOFVector(nodes, theta1) ==
  [i \in 0..(4 * Len(nodes) - 2) |->
     IF i = 7 THEN theta1
     ELSE IF i % 4 = 3 THEN Zero ELSE nodes[(i \div 4) + 1][(i % 4) + 1]]

\* the arguments objfun passes to getFs, getFb and getFt for the DOF vector
\* qv of a rod whose rest state is straight and untwisted with edges of
\* length 1
AsmArgs(qv) ==
  Local([nv0 \in {(Len0(qv) + 1) \div 4} |->
  Local([tangent \in {computeTangent(qv)} |->
  Local([a \in {computeSpaceParallel(FirstDirector(tangent[0]), qv)} |->
  Local([m \in {computeMaterialFrame(a.d1, a.d2, TwistAngles(qv))} |->
    [q |-> qv,
     EA |-> R(2), EI |-> One, GJ |-> One,
     refLen |-> [c \in 0..(nv0 - 2) |-> One],
     voronoiRefLen |-> VoronoiRefLen(nv0, [c \in 0..(nv0 - 2) |-> One]),
     kappaBar |-> [c \in 0..(nv0 - 1) |-> <<Zero, Zero>>],
     twistBar |-> Zeros(nv0),
     refTwist |-> getRefTwist(a.d1, tangent, Zeros(nv0)),
     m1 |-> m.m1, m2 |-> m.m2]])])])])

\* the state of the loop of getFs, getFb or getFt before its iteration c:
\* the arrays F and J, and for every iteration made its ind, dF and dJ
LoopState(c, F, J, calls) == [c |-> c, F |-> F, J |-> J, calls |-> calls]

\* one iteration of the loop: F[ind] -= dF and J[np.ix_(ind, ind)] -= dJ
Accumulate(st, ind, dF, dJ) ==
  LoopState(st.c + 1, ScatterSub(st.F, ind, dF), ScatterSub2(st.J, ind, dJ),
            Append(st.calls, [ind |-> ind, dF |-> dF, dJ |-> dJ]))

\* ne = nv - 1 of the rod in args
AsmEdges == NumEdges(args.q)

InitAsm ==
  /\ MainIdle
  /\ pc = "loop"
  /\ fn \in {"getFs", "getFb", "getFt"}
  /\ \E nodes \in AsmNodes, theta1 \in Twists :
       args = AsmArgs(DOFVector(nodes, theta1))
  /\ result = LoopState(IF fn = "getFs" THEN 0 ELSE 1,
                        Zeros(Len0(args.q)), Zeros2(Len0(args.q)), <<>>)

AsmFrame ==
  UNCHANGED <<heap, q0, q, qGuess, u, a1, a2, refTwist, a1Iterate, a2Iterate,
              iter, error, timeStep, rest, atCall, returned, fn, args>>

\* the body of "for c in range(ne)" of getFs
getFsIteration ==
  /\ pc = "loop" /\ fn = "getFs" /\ result.c < AsmEdges
  /\ \E c \in {result.c} :
     \E node0 \in {Slice3(args.q, 4 * c)}, node1 \in {Slice3(args.q, 4 * c + 4)} :
     \E ind \in {IndS(c)},
        dF \in {gradEs(node0, node1, args.refLen[c], args.EA)},
        dJ \in {hessEs(node0, node1, args.refLen[c], args.EA)} :
       result' = Accumulate(result, ind, dF, dJ)
  /\ pc' = "loop" /\ AsmFrame

\* the body of "for c in range(1,ne)" of getFb
getFbIteration ==
  /\ pc = "loop" /\ fn = "getFb" /\ result.c < AsmEdges
  /\ \E c \in {result.c} :
     \E node0 \in {Slice3(args.q, 4 * c - 4)}, node1 \in {Slice3(args.q, 4 * c)},
        node2 \in {Slice3(args.q, 4 * c + 4)} :
     \E ind \in {IndB(c)},
        dF \in {gradEb(node0, node1, node2, args.m1[c - 1], args.m2[c - 1],
                       args.m1[c], args.m2[c], args.kappaBar[c],
                       args.voronoiRefLen[c], args.EI, None)},
        dJ \in {hessEb(node0, node1, node2, args.m1[c - 1], args.m2[c - 1],
                       args.m1[c], args.m2[c], args.kappaBar[c],
                       args.voronoiRefLen[c], args.EI, None)} :
       result' = Accumulate(result, ind, dF, dJ)
  /\ pc' = "loop" /\ AsmFrame

\* the body of "for c in range(1,ne)" of getFt
getFtIteration ==
  /\ pc = "loop" /\ fn = "getFt" /\ result.c < AsmEdges
  /\ \E c \in {result.c} :
     \E node0 \in {Slice3(args.q, 4 * c - 4)}, node1 \in {Slice3(args.q, 4 * c)},
        node2 \in {Slice3(args.q, 4 * c + 4)} :
     \E ind \in {IndB(c)},
        dF \in {gradEt(node0, node1, node2, args.q[4 * c - 1], args.q[4 * c + 3],
                       args.refTwist[c], args.twistBar[c],
                       args.voronoiRefLen[c], args.GJ)},
        dJ \in {hessEt(node0, node1, node2, args.q[4 * c - 1], args.q[4 * c + 3],
                       args.refTwist[c], args.twistBar[c],
                       args.voronoiRefLen[c], args.GJ)} :
       result' = Accumulate(result, ind, dF, dJ)
  /\ pc' = "loop" /\ AsmFrame

\* return Fs, Js (Fb, Jb; Ft, Jt) when the loop has run out
AsmReturn ==
  /\ pc = "loop" /\ result.c >= AsmEdges
  /\ pc' = "applied"
  /\ UNCHANGED result /\ AsmFrame

NextAsm == getFsIteration \/ getFbIteration \/ getFtIteration \/ AsmReturn

SpecAsm == InitAsm /\ [][NextAsm]_vars

\* ------------------- the geometry primitives and gradEs_hessEs alone

\* largest coordinate of a vector that is rotated, transported or taken as
\* the normal of a signed angle
MaxCoord == 1

\* largest number of quarter turns of a rotation, either way
MaxTurn == 4

\* vectors with whole coordinates
Vectors ==
  { Vec(x, y, z) : x \in -MaxCoord..MaxCoord, y \in -MaxCoord..MaxCoord,
                   z \in -MaxCoord..MaxCoord }

\* unit vectors of the x-y plane that lie along no axis
Oblique ==
  { <<Rat(sx * a, 5), Rat(sy * (7 - a), 5), Zero>> :
      a \in {3, 4}, sx \in {-1, 1}, sy \in {-1, 1} }

\* tangents and rotation axes: along an axis with length 1..MaxSeed, or
\* oblique with length 1
Tangents == Seeds \cup Oblique

\* rotation angles, in quarter turns
Turns == { R(k) : k \in -MaxTurn..MaxTurn }

\* edges of gradEs_hessEs: along an axis, or oblique with length 5
StretchEdges == Edges \cup { VScale(R(5), e) : e \in Oblique }

InitGeom ==
  /\ MainIdle
  /\ pc = "apply"
  /\ result = None
  /\ \/ fn = "signedAngle" /\ args \in [u : Seeds, v : Seeds, n : Vectors]
     \/ fn = "rotateAxisAngle"
          /\ args \in [v : Vectors, z : Tangents, theta : Turns]
     \/ fn = "parallel_transport"
          /\ args \in [u : Vectors, t1 : Tangents, t2 : Tangents]
     \/ fn = "computeReferenceTwist"
          /\ args \in [u1 : Axes, u2 : Axes, t1 : Axes, t2 : Axes,
                       refTwist : Turns \cup {None}]
     \/ fn = "gradEs_hessEs"
          /\ \E node0 \in {Vec(0, 0, 0), Vec(1, -1, 2)}, edge \in StretchEdges,
                l_k \in {Half, One, R(2)}, stiffness \in {One, R(2)} :
               args = [node0 |-> node0, node1 |-> VAdd(node0, edge),
                       l_k |-> l_k, EA |-> stiffness]

GeomFrame ==
  UNCHANGED <<heap, q0, q, qGuess, u, a1, a2, refTwist, a1Iterate, a2Iterate,
              iter, error, timeStep, rest, atCall, returned, fn, args>>

\* angle = signedAngle(u, v, n)
ApplySignedAngle ==
  /\ pc = "apply" /\ fn = "signedAngle"
  /\ result' = signedAngle(args.u, args.v, args.n)
  /\ pc' = "applied"
  /\ GeomFrame

\* vNew = rotateAxisAngle(v, z, theta)
ApplyRotateAxisAngle ==
  /\ pc = "apply" /\ fn = "rotateAxisAngle"
  /\ result' = rotateAxisAngle(args.v, args.z, args.theta)
  /\ pc' = "applied"
  /\ GeomFrame

\* d = parallel_transport(u, t1, t2)
ApplyParallelTransport ==
  /\ pc = "apply" /\ fn = "parallel_transport"
  /\ result' = parallel_transport(args.u, args.t1, args.t2)
  /\ pc' = "applied"
  /\ GeomFrame

\* a faulty variant: the second call has the tangents in the order of the
\* first
TransportBackSameWay ==
  /\ pc = "applied" /\ fn = "parallel_transport"
  /\ result' = parallel_transport(result, args.t1, args.t2)
  /\ pc' = "back"
  /\ GeomFrame

\* parallel_transport(d, t2, t1): what the first call returned is taken back
TransportBack ==
  /\ pc = "applied" /\ fn = "parallel_transport"
  /\ result' = parallel_transport(result, args.t2, args.t1)
  /\ pc' = "back"
  /\ GeomFrame

\* dF, dJ = gradEs_hessEs(node0, node1, l_k, EA)
ApplyGradEsHessEs ==
  /\ pc = "apply" /\ fn = "gradEs_hessEs"
  /\ result' = [dF |-> gradEs(args.node0, args.node1, args.l_k, args.EA),
                dJ |-> hessEs(args.node0, args.node1, args.l_k, args.EA)]
  /\ pc' = "applied"
  /\ GeomFrame

\* refTwist = computeReferenceTwist(u1, u2, t1, t2, refTwist)
ApplyComputeReferenceTwist ==
  /\ pc = "apply" /\ fn = "computeReferenceTwist"
  /\ result' = computeReferenceTwist(args.u1, args.u2, args.t1, args.t2,
                                     args.refTwist)
  /\ pc' = "applied"
  /\ GeomFrame

\* the function is called again, with what it returned as the guess
ReferenceTwistAgain ==
  /\ pc = "applied" /\ fn = "computeReferenceTwist"
  /\ result' = [first |-> result,
                again |-> computeReferenceTwist(args.u1, args.u2, args.t1,
                                                args.t2, result)]
  /\ pc' = "again"
  /\ GeomFrame

NextGeom ==
  \/ ApplySignedAngle
  \/ ApplyRotateAxisAngle
  \/ ApplyParallelTransport
  \/ TransportBack
  \/ ApplyGradEsHessEs
  \/ ApplyComputeReferenceTwist
  \/ ReferenceTwistAgain

SpecGeom == InitGeom /\ [][NextGeom]_vars

\* ---------------------------------------- the index accesses of the loops

\* largest number of nodes of a rod whose index accesses are followed
MaxNodes == 6

\* a DOF vector each of whose entries is its own index: what the code reads
\* from it is the index it reads at
IndexVector(nv0) == [i \in 0..(4 * nv0 - 2) |-> i]

\* an access to the DOF vector (or to an array F, J of its length): the
\* indices it reads or writes, in the order of the code, and what the code
\* takes them for, the position of node k or the twist angle of edge k
Access(at, of, k) == [at |-> at, of |-> of, k |-> k]

\* the position of node k, read or written at the indices at
NodeAt(at, k) == Access(at, "node", k)

\* the twist angle of edge k, read or written at the index i
TwistAt(i, k) == Access(<<i>>, "edge", k)

\* the state of a loop before its iteration c, with the accesses made so far
IndexState(c, accesses) == [c |-> c, accesses |-> accesses]

\* the entries ind[from], ind[from + 1], ind[from + 2] of an index array
Ind3(ind, from) == <<ind[from], ind[from + 1], ind[from + 2]>>

\* Fs[ind] -= dF and Js[np.ix_(ind, ind)] -= dJ: dF[0:3] belongs to node c,
\* dF[3:6] to node c + 1
ScatterAccessesS(ind, c) == { NodeAt(Ind3(ind, 0), c), NodeAt(Ind3(ind, 3), c + 1) }

\* Fb[ind] -= dF and Jb[np.ix_(ind, ind)] -= dJ (and the same of getFt): the
\* kernels' 11 entries are node c - 1, theta_e, node c, theta_f, node c + 1
ScatterAccessesB(ind, c) ==
  { NodeAt(Ind3(ind, 0), c - 1), TwistAt(ind[3], c - 1), NodeAt(Ind3(ind, 4), c),
    TwistAt(ind[7], c), NodeAt(Ind3(ind, 8), c + 1) }

\* node0, node1, node2 of getKappa, getFb and getFt
NodeReads(qv, c) ==
  { NodeAt(Slice3(qv, 4 * c - 4), c - 1), NodeAt(Slice3(qv, 4 * c), c),
    NodeAt(Slice3(qv, 4 * c + 4), c + 1) }

InitIdx ==
  /\ MainIdle
  /\ pc = "loop"
  /\ fn \in {"computeTangent", "getKappa", "getFs", "getFb", "getFt", "theta"}
  /\ \E nv0 \in 2..MaxNodes : args = [q |-> IndexVector(nv0)]
  /\ result = IndexState(IF fn \in {"computeTangent", "getFs"} THEN 0 ELSE 1, {})

\* one more iteration, with the accesses it makes
IdxStep(accesses) ==
  /\ result' = IndexState(result.c + 1, result.accesses \cup accesses)
  /\ pc' = "loop"
  /\ AsmFrame

\* the body of "for c in range(ne)" of computeTangent
computeTangentAccesses ==
  /\ pc = "loop" /\ fn = "computeTangent" /\ result.c < NumEdges(args.q)
  /\ IdxStep({ NodeAt(Slice3(args.q, 4 * result.c + 4), result.c + 1),
               NodeAt(Slice3(args.q, 4 * result.c), result.c) })

\* the body of "for c in np.arange(1,ne)" of getKappa
getKappaAccesses ==
  /\ pc = "loop" /\ fn = "getKappa" /\ result.c < NumEdges(args.q)
  /\ IdxStep(NodeReads(args.q, result.c))

\* the body of "for c in range(ne)" of getFs
getFsAccesses ==
  /\ pc = "loop" /\ fn = "getFs" /\ result.c < NumEdges(args.q)
  /\ IdxStep({ NodeAt(Slice3(args.q, 4 * result.c), result.c),
               NodeAt(Slice3(args.q, 4 * result.c + 4), result.c + 1) }
             \cup ScatterAccessesS(IndS(result.c), result.c))

\* the body of "for c in range(1,ne)" of getFb
getFbAccesses ==
  /\ pc = "loop" /\ fn = "getFb" /\ result.c < NumEdges(args.q)
  /\ IdxStep(NodeReads(args.q, result.c)
             \cup ScatterAccessesB(IndB(result.c), result.c))

\* the body of "for c in range(1,ne)" of getFt
getFtAccesses ==
  /\ pc = "loop" /\ fn = "getFt" /\ result.c < NumEdges(args.q)
  /\ IdxStep(NodeReads(args.q, result.c)
             \cup { TwistAt(args.q[4 * result.c - 1], result.c - 1),
                    TwistAt(args.q[4 * result.c + 3], result.c) }
             \cup ScatterAccessesB(IndB(result.c), result.c))

\* theta = q[3::4] of objfun: entry e of theta is the twist angle of edge e
thetaAccesses ==
  /\ pc = "loop" /\ fn = "theta"
  /\ \E theta \in {TwistAngles(args.q)} :
       result' = IndexState(Cardinality(DOMAIN theta),
                            { TwistAt(theta[e], e) : e \in DOMAIN theta })
  /\ pc' = "applied"
  /\ AsmFrame

\* the loop has run out
IdxReturn ==
  /\ pc = "loop" /\ fn # "theta" /\ result.c >= NumEdges(args.q)
  /\ pc' = "applied"
  /\ UNCHANGED result /\ AsmFrame

NextIdx ==
  \/ computeTangentAccesses
  \/ getKappaAccesses
  \/ getFsAccesses
  \/ getFbAccesses
  \/ getFtAccesses
  \/ thetaAccesses
  \/ IdxReturn

SpecIdx == InitIdx /\ [][NextIdx]_vars

\* ------------------------------------- the curve-fitting script HW3_JG_2

\* data points that are followed (x_data has 10)
NumPoints == 2

\* the residuals y_data - y_pred that are followed, in hundredths
MaxRes == 2

\* epochs of a call of initguess that are followed (epochs_init is 10000)
MaxEpochs == 3

\* restarts that are counted; the script itself counts none
MaxRestarts == 3

eps == Rat(1, 10000)

\* the parameters n_fit, a_fit, m_fit, b_fit are followed by the residuals
\* y_data - y_pred they give at the data points: np.random.rand() and the
\* gradient step may give any of them
Fits == [1..NumPoints -> { Rat(k, 100) : k \in -MaxRes..MaxRes }]

RECURSIVE SumSquares(_, _)
SumSquares(r, n) ==
  IF n = 0 THEN Zero ELSE RAdd(SumSquares(r, n - 1), RMul(r[n], r[n]))

\* np.mean((y - y_pred) ** 2)
compute_loss(r) == RDiv(SumSquares(r, NumPoints), R(NumPoints))

\* the names of the script and of the running call of initguess; losses
\* records loss_fit of every epoch of the call, updates and restarts count
\* the parameter updates of the call and the calls (up to MaxRestarts)
FitState(fit, previous_loss, loss_fit, epoch, init_loss, losses, restarts) ==
  [fit |-> fit, previous_loss |-> previous_loss, loss_fit |-> loss_fit,
   epoch |-> epoch, init_loss |-> init_loss, losses |-> losses,
   updates |-> Len(losses), restarts |-> restarts]

\* eps = 1e-4; init_loss = 2*eps, before the while loop is entered
InitFit ==
  /\ MainIdle
  /\ fn = "HW3_JG_2" /\ args = [epochs |-> MaxEpochs, eps |-> eps]
  /\ pc = "while"
  /\ result = FitState(None, None, None, 0, RMul(R(2), eps), <<>>, 0)

\* while init_loss > eps: initguess is called; previous_loss = 0, the
\* parameters are drawn, the for loop is entered
initguessCall ==
  /\ pc = "while" /\ RGreater(result.init_loss, eps)
  /\ \E fit \in Fits :
       result' = FitState(fit, Zero, None, 0, result.init_loss, <<>>,
                          IF result.restarts < MaxRestarts
                          THEN result.restarts + 1 ELSE MaxRestarts)
  /\ pc' = IF 0 < args.epochs THEN "epoch" ELSE "return"
  /\ AsmFrame

\* a faulty variant: the loop is left on a small change only
LeavesLoopOnSmallChange(loss_fit, previous_loss) ==
  RLess(RAbs(RSub(loss_fit, previous_loss)), args.eps)

\* if (loss_fit - previous_loss) > eps*1: break
\* elif abs(loss_fit - previous_loss) < eps: break
LeavesLoop(loss_fit, previous_loss) ==
  \/ RGreater(RSub(loss_fit, previous_loss), RMul(args.eps, One))
  \/ RLess(RAbs(RSub(loss_fit, previous_loss)), args.eps)

\* one pass of "for epoch in range(epochs)": the parameters are updated,
\* the loss of the new ones is computed, the loop is left by a break or at
\* the last epoch, or previous_loss = loss_fit and the next epoch follows
initguessEpoch ==
  /\ pc = "epoch"
  /\ \E fit \in Fits :
     \E loss_fit \in {compute_loss(fit)} :
       IF LeavesLoop(loss_fit, result.previous_loss)
       THEN /\ result' = FitState(fit, result.previous_loss, loss_fit,
                                  result.epoch, result.init_loss,
                                  Append(result.losses, loss_fit),
                                  result.restarts)
            /\ pc' = "return"
       ELSE /\ result' = FitState(fit, loss_fit, loss_fit,
                                  result.epoch + 1, result.init_loss,
                                  Append(result.losses, loss_fit),
                                  result.restarts)
            /\ pc' = IF result.epoch + 1 < args.epochs THEN "epoch"
                     ELSE "return"
  /\ AsmFrame

\* return n_fit, a_fit, m_fit, b_fit; init_loss = compute_loss(...) of them
initguessReturn ==
  /\ pc = "return"
  /\ result' = [result EXCEPT !.init_loss = compute_loss(result.fit)]
  /\ pc' = "while"
  /\ AsmFrame

\* the while loop ends: previous_loss = init_loss
RestartsEnd ==
  /\ pc = "while" /\ ~RGreater(result.init_loss, eps)
  /\ result' = [result EXCEPT !.previous_loss = result.init_loss]
  /\ pc' = "fitted"
  /\ AsmFrame

NextFit == initguessCall \/ initguessEpoch \/ initguessReturn \/ RestartsEnd

SpecFit == InitFit /\ [][NextFit]_vars

\* ------------------------------------------------------------ properties

\* the DOF indices that are not in freeIndex
FixedIndex == { i \in DOMAIN atCall.qGuess : \A k \in DOMAIN freeIndex : freeIndex[k] # i }

\* C1: in every Newton iteration of a call of objfun, and in the q it
\* returns, every DOF that is not in freeIndex has the value it had in the
\* initial guess
C1_FixedDofsKept ==
  /\ pc = "while" => \A i \in FixedIndex : Val(qGuess)[i] = atCall.qGuess[i]
  /\ pc = "ret" => \A i \in FixedIndex : Val(q)[i] = atCall.qGuess[i]

\* objfun has returned after more than one correction, the free DOFs moved
C1_Witness ==
  /\ pc = "ret" /\ iter >= 2
  /\ \E k \in DOMAIN freeIndex : Val(q)[freeIndex[k]] # atCall.qGuess[freeIndex[k]]
  /\ \A i \in DOMAIN Val(q) : IsFinite(Val(q)[i])

\* the sum of absolute residuals over the free DOFs at the current q
FreeResidualSum ==
  SumAbs(Restrict(NewtonResidual(Val(qGuess), Val(q0), u, a1, refTwist).f,
                  freeIndex))

\* C2: the loop is left only after at least one iteration and only when the
\* error is not greater than tol; with such an error no further iteration
\* starts; and an iteration sets the error to the residual sum of the q it
\* starts from (the q the iteration before it left), before its own
\* correction
C2_LoopExit ==
  [][ /\ (pc = "while" /\ pc' = "ret") => (iter >= 1 /\ ~RGreater(error, tol))
      /\ (pc = "while" /\ iter >= 1 /\ ~RGreater(error, tol)) => pc' # "while"
      /\ (pc = "while" /\ pc' = "while") =>
            /\ RGreater(error, tol)
            /\ iter' = iter + 1
            /\ error' = FreeResidualSum ]_vars

\* the loop has made a second iteration, from a q the first one moved, and
\* ended on an error that is positive and not greater than tol
C2_Witness ==
  /\ pc = "ret" /\ iter = 2
  /\ RGreater(error, Zero) /\ ~RGreater(error, tol)
  /\ returned.q # atCall.qGuess

\* C3: while the error is greater than tol the loop is not left and objfun
\* does not return, whatever the number of iterations made
C3_NoIterationCap ==
  [][ (pc = "while" /\ RGreater(error, tol)) => pc' \in {"while", "raised"} ]_vars

\* the loop is still running after MaxIter iterations, its error above tol
C3_Witness == pc = "while" /\ iter = MaxIter /\ RGreater(error, tol)

\* the rod objfun was called on is straight and untwisted, its natural
\* curvature and twist are zero, no external force acts, and the guess is q0
StraightUnloaded ==
  /\ \A i \in DOMAIN Fg : Fg[i] = Zero
  /\ \A c \in DOMAIN kappaBar : kappaBar[c] = <<Zero, Zero>>
  /\ \A c \in DOMAIN twistBar : twistBar[c] = Zero
  /\ \A c \in DOMAIN computeTangent(atCall.q0) :
       computeTangent(atCall.q0)[c] = computeTangent(atCall.q0)[0]
  /\ \A c \in DOMAIN TwistAngles(atCall.q0) : TwistAngles(atCall.q0)[c] = Zero
  /\ \A c \in DOMAIN atCall.refTwist : atCall.refTwist[c] = Zero
  /\ atCall.qGuess = atCall.q0

\* C4: a call of objfun on a straight, untwisted, unloaded rod with zero
\* natural curvature and twist, with the guess equal to q0, returns q = q0
C4_StraightRodStays == (pc = "ret" /\ StraightUnloaded) => Val(q) = atCall.q0

\* the second step of such a rod has returned
C4_Witness == pc = "ret" /\ StraightUnloaded /\ timeStep = 1 /\ iter = 1

\* C5: at every step after the first, objfun is entered with q0, u, a1, a2
\* equal to the q, u, a1, a2 the step before returned and with the
\* reference twist as the last iteration of that step left it
C5_StepInputs ==
  (pc \in {"while", "raised"} /\ timeStep >= 1) =>
     /\ atCall.q0 = returned.q
     /\ atCall.u = returned.u
     /\ atCall.a1 = returned.a1
     /\ atCall.a2 = returned.a2
     /\ atCall.refTwist = returned.refTwist

\* a later step is entered with a velocity and a reference twist that are
\* finite and not zero
C5_Witness ==
  /\ pc = "while" /\ timeStep >= 1
  /\ \E i \in DOMAIN atCall.u : IsFinite(atCall.u[i]) /\ atCall.u[i] # Zero
  /\ \A c \in DOMAIN atCall.refTwist : IsFinite(atCall.refTwist[c])
  /\ \E c \in DOMAIN atCall.refTwist : atCall.refTwist[c] # Zero

\* C6: the guess of objfun and q0 are different arrays, q0 after a step and
\* the returned q are different arrays, and during the iterations of a step
\* q0 keeps the value it had at the call, which is the q the step before
\* returned
C6_CopyNotAlias ==
  /\ pc = "while" => (qGuess # q0 /\ Val(q0) = atCall.q0)
  /\ (pc = "while" /\ timeStep >= 1) => Val(q0) = returned.q
  /\ (pc \in {"call", "done"} /\ timeStep >= 1) => (q0 # q /\ Val(q0) = Val(q))

\* in a later step the guess has been corrected in place and differs from q0
C6_Witness ==
  /\ pc = "while" /\ timeStep >= 1 /\ iter >= 1
  /\ Val(qGuess) # Val(q0)

\* C7: when np.linalg.solve fails, nothing is returned and q0, u, a1, a2 and
\* the reference twist of the caller are as they were before the call
C7_FailureKeepsCallerState ==
  pc = "raised" =>
     /\ Val(q0) = atCall.q0
     /\ u = atCall.u
     /\ a1 = atCall.a1
     /\ a2 = atCall.a2
     /\ refTwist = atCall.refTwist

\* C8: the frame objfun returns is the time-parallel transport of the input
\* frame from q0 to the returned q, and every returned a1 is perpendicular
\* to the tangent of its edge in the returned q
C8_ReturnedFrameOfReturnedQ ==
  pc = "ret" =>
     /\ a1 = computeTimeParallel(atCall.a1, atCall.q0, Val(q)).a1
     /\ a2 = computeTimeParallel(atCall.a1, atCall.q0, Val(q)).a2
     /\ \A c \in DOMAIN a1 : Dot(a1[c], computeTangent(Val(q))[c]) = Zero

\* C9: no step of objfun or of the time loop changes refLen, voronoiRefLen,
\* kappaBar, twistBar, the stiffnesses, the mass vector, the external force
\* or freeIndex
C9_RestStateKept == [][rest' = rest]_vars

\* the time loop has ended and the rod has moved
C9_Witness ==
  /\ pc = "done" /\ timeStep = Nsteps
  /\ \E i \in DOMAIN u : IsFinite(u[i]) /\ u[i] # Zero

\* every edge has a unit d1 perpendicular to its tangent, and d2 = t x d1
FrameOrthonormal(d1, d2, tangent) ==
  \A c \in DOMAIN tangent :
     /\ Dot(d1[c], d1[c]) = One
     /\ Dot(d1[c], tangent[c]) = Zero
     /\ d2[c] = Cross(tangent[c], d1[c])

\* the seed is a unit vector perpendicular to the tangent of the first edge
SeedUnitPerpendicular ==
  /\ Dot(args.d1_first, args.d1_first) = One
  /\ Dot(args.d1_first, computeTangent(args.q)[0]) = Zero

\* C10 (as amended): for a seed director that is a unit vector perpendicular
\* to the tangent of the first edge, and a q with nonzero edge lengths,
\* computeSpaceParallel returns for every edge, the first one included, a
\* unit a1 perpendicular to the tangent of the edge and a2 = tangent x a1
C10_SpaceParallelUnitSeed ==
  (pc = "applied" /\ SeedUnitPerpendicular) =>
     FrameOrthonormal(result.d1, result.d2, computeTangent(args.q))

\* such a seed has been transported along a rod that bends twice, and d1 is
\* not the seed on every edge
C10_Witness ==
  /\ pc = "applied" /\ SeedUnitPerpendicular
  /\ computeTangent(args.q)[0] # computeTangent(args.q)[1]
  /\ computeTangent(args.q)[1] # computeTangent(args.q)[2]
  /\ \E c \in DOMAIN result.d1 : result.d1[c] # args.d1_first

\* C10 (as stated): the same for any seed director
C10_SpaceParallelAnySeed ==
  pc = "applied" =>
     FrameOrthonormal(result.d1, result.d2, computeTangent(args.q))

\* the indices in an index array
Range(ind) == { ind[k] : k \in DOMAIN ind }

\* the DOF indices of the two nodes of edge c: 4c..4c+2 and 4c+4..4c+6
EdgeStencil(c) == ((4 * c)..(4 * c + 6)) \ {4 * c + 3}

\* the DOF indices of the nodes c-1, c, c+1 and of the two edges between them
NodeStencil(c) == (4 * c - 4)..(4 * c + 6)

\* the entries of F and J outside the index set block are left as they are
WritesOnlyIn(block) ==
  /\ \A j \in DOMAIN result.F : j \notin block => result'.F[j] = result.F[j]
  /\ \A i, j \in DOMAIN result.F :
       (i \notin block \/ j \notin block) => result'.J[i][j] = result.J[i][j]

\* C11 (as amended): every kernel invocation of getFs, getFb and getFt has
\* as its index array, and writes in F and J, only the DOF indices of its
\* stencil, which lie inside the DOF vector: for the stretching edge c the 6 indices 4c..4c+2 and 4c+4..4c+6 of
\* its two nodes (the twist index 4c+3 between them is left out), for the
\* bending or twisting at the interior node c the 11 consecutive indices
\* 4c-4..4c+6
C11_KernelStencil ==
  [][ (pc = "loop" /\ pc' = "loop") =>
        \E block \in {IF fn = "getFs" THEN EdgeStencil(result.c)
                      ELSE NodeStencil(result.c)} :
          /\ Range(result'.calls[Len(result'.calls)].ind) = block
          /\ Cardinality(block) = (IF fn = "getFs" THEN 6 ELSE 11)
          /\ block \subseteq DOMAIN args.q
          /\ WritesOnlyIn(block) ]_vars

\* the stretching forces of two stretched edges have been added: the nodes
\* of edge 1 hold a force, the twist entry between them holds none
C11_Witness ==
  /\ fn = "getFs" /\ result.c = 2
  /\ result.F[4] # Zero /\ result.F[8] # Zero /\ result.F[7] = Zero
  /\ result.J[4][8] # Zero /\ result.J[4][7] = Zero

\* C11 (as stated): the index array of every kernel invocation is a run of
\* consecutive indices, 6 of them for getFs and 11 for getFb and getFt
C11_ContiguousBlocks ==
  \A n \in 1..Len(result.calls) :
     /\ \A k \in DOMAIN result.calls[n].ind :
          result.calls[n].ind[k] = result.calls[n].ind[0] + k
     /\ Cardinality(DOMAIN result.calls[n].ind) = (IF fn = "getFs" THEN 6 ELSE 11)

\* the sum over the first n kernel invocations of the local gradient entry
\* that belongs to the global index j, where the invocation has one
RECURSIVE GradientSum(_, _, _)
GradientSum(calls, n, j) ==
  IF n = 0 THEN Zero
  ELSE RAdd(GradientSum(calls, n - 1, j),
            IF j \in Range(calls[n].ind)
            THEN calls[n].dF[Pos(calls[n].ind, j)] ELSE Zero)

\* the same for the local Hessian entry that belongs to the global pair (i, j)
RECURSIVE HessianSum(_, _, _, _)
HessianSum(calls, n, i, j) ==
  IF n = 0 THEN Zero
  ELSE RAdd(HessianSum(calls, n - 1, i, j),
            IF i \in Range(calls[n].ind) /\ j \in Range(calls[n].ind)
            THEN calls[n].dJ[Pos(calls[n].ind, i)][Pos(calls[n].ind, j)]
            ELSE Zero)

\* C12: the force getFs, getFb or getFt returns at the DOF index j is minus
\* the sum of the local gradient entries of all kernel invocations whose
\* index array contains j, and the Jacobian entry (i, j) is minus the sum of
\* their local Hessian entries
C12_AssemblyAdds ==
  pc = "applied" =>
     /\ \A j \in DOMAIN result.F :
          result.F[j] = RNeg(GradientSum(result.calls, Len(result.calls), j))
     /\ \A i, j \in DOMAIN result.F :
          result.J[i][j] =
            RNeg(HessianSum(result.calls, Len(result.calls), i, j))

\* getFb has returned for a rod with two interior nodes, both of which put
\* a gradient and a Hessian entry on the DOF 4 they share
C12_Witness ==
  /\ pc = "applied" /\ fn = "getFb" /\ Len(result.calls) = 2
  /\ \A n \in 1..2 :
       /\ result.calls[n].dF[Pos(result.calls[n].ind, 4)] \notin {Zero, NaN}
       /\ result.calls[n].dJ[Pos(result.calls[n].ind, 4)][Pos(result.calls[n].ind, 4)]
            \notin {Zero, NaN}
  /\ \A j \in DOMAIN result.F : IsFinite(result.F[j])

\* the number of nodes of the rod the script has set up
NumNodes == Cardinality(DOMAIN refLen) + 1

\* C13: in every state of the time stepping (before and after every objfun
\* call, after every pass of the Newton loop, after every time step) each of
\* the DOF vectors q0, q_guess and q that is bound has the 4 * nv - 1 entries
\* 0 .. 4 * nv - 2, and so has the velocity vector u
C13_LengthKept ==
  /\ \A name \in Bound({q0, q, qGuess}) :
        DOMAIN Val(name) = 0..(4 * NumNodes - 2)
  /\ DOMAIN u = 0..(4 * NumNodes - 2)

\* the second time step has returned, after at least one pass of the Newton
\* loop that moved the rod, with a velocity that is not zero
C13_Witness ==
  /\ pc = "ret" /\ timeStep = 1 /\ iter >= 1
  /\ Val(q) # Val(q0)
  /\ \E i \in DOMAIN u : u[i] # Zero

\* t2 is s times t1
Multiple(t1, t2, s) == t2 = VScale(s, t1)

\* C14: parallel_transport(u, t1, t2) returns u as it is whenever t1 x t2 has
\* the norm zero; this is so when t2 is t1, when t2 is a positive multiple of
\* t1 and when t2 points against t1
C14_ParallelTangentsKeepU ==
  (pc = "applied" /\ fn = "parallel_transport") =>
     /\ REq(Norm(Cross(args.t1, args.t2)), Zero) => result = args.u
     /\ (\E s \in {One, R(2), R(-1), R(-2), Half} :
            Multiple(args.t1, args.t2, s)) => result = args.u

\* a vector with a part across the tangent has been transported from a
\* tangent to one of twice the length that points the other way
C14_Witness ==
  /\ pc = "applied" /\ fn = "parallel_transport"
  /\ args.t1 = Vec(0, 1, 0) /\ args.t2 = Vec(0, -2, 0)
  /\ args.u = Vec(1, 1, -1)
  /\ result = args.u

\* Rodrigues' formula: cos(theta) v + sin(theta) (z x v)
\* + (1 - cos(theta)) (z . v) z
Rodrigues(v, z, theta) ==
  VAdd(VAdd(VScale(Cos(theta), v), VScale(Sin(theta), Cross(z, v))),
       VScale(RMul(RSub(One, Cos(theta)), Dot(z, v)), z))

\* C15: for a unit axis z and every angle theta, rotateAxisAngle(v, z, theta)
\* is the vector Rodrigues' formula gives; with theta = 0 it is v, and with v
\* perpendicular to z and theta a quarter turn it is z x v
C15_RotateIsRodrigues ==
  (pc = "applied" /\ fn = "rotateAxisAngle" /\ REq(Norm(args.z), One)) =>
     /\ result = Rodrigues(args.v, args.z, args.theta)
     /\ args.theta = Zero => result = args.v
     /\ (args.theta = One /\ Dot(args.z, args.v) = Zero) =>
           result = Cross(args.z, args.v)

\* a vector along z has been rotated by a quarter turn about a unit axis of
\* the x-y plane that lies along no coordinate axis
C15_Witness ==
  /\ pc = "applied" /\ fn = "rotateAxisAngle"
  /\ args.z = <<Rat(3, 5), Rat(4, 5), Zero>> /\ args.v = Vec(0, 0, 1)
  /\ args.theta = One
  /\ result = <<Rat(4, 5), Rat(-3, 5), Zero>>

\* C16: whenever n . (u x v) is not zero, signedAngle(u, v, n) is minus
\* signedAngle(v, u, n)
C16_SignedAngleAntisymmetric ==
  (pc = "applied" /\ fn = "signedAngle"
     /\ ~REq(Dot(args.n, Cross(args.u, args.v)), Zero)) =>
     result = RNeg(signedAngle(args.v, args.u, args.n))

\* the angle from x to a vector along y, seen against a normal that has a
\* part along -z: minus a quarter turn, and a quarter turn the other way
C16_Witness ==
  /\ pc = "applied" /\ fn = "signedAngle"
  /\ args.u = Vec(1, 0, 0) /\ args.v = Vec(0, 2, 0) /\ args.n = Vec(1, -1, -1)
  /\ result = R(-1)
  /\ signedAngle(args.v, args.u, args.n) = One

\* the angle between a and b without a sign, in quarter turns: the one in
\* 0..2 whose cosine is a . b / (|a| |b|)
UnsignedAngle(a, b) ==
  CHOOSE k \in {Zero, One, R(2)} :
     Cos(k) = RDiv(Dot(a, b), RMul(Norm(a), Norm(b)))

\* C17: signedAngle(u, v, n) lies in (-pi, pi] (in quarter turns: above -2,
\* at most 2), its magnitude is the angle between u and v, and it is
\* negative exactly when n . (u x v) < 0; for v a positive multiple of u it
\* is 0 and for v a negative multiple of u it is +pi, whatever n is
C17_SignedAngleRangeAndSign ==
  (pc = "applied" /\ fn = "signedAngle") =>
     /\ RLess(R(-2), result) /\ ~RLess(R(2), result)
     /\ RAbs(result) = UnsignedAngle(args.u, args.v)
     /\ RLess(result, Zero)
          <=> RLess(Dot(args.n, Cross(args.u, args.v)), Zero)
     /\ (\E s \in {Half, One, R(2)} : Multiple(args.u, args.v, s)) =>
           result = Zero
     /\ (\E s \in {RNeg(Half), R(-1), R(-2)} : Multiple(args.u, args.v, s)) =>
           result = R(2)

\* the angle between a vector and one that points against it, with a normal
\* all of whose coordinates are negative: +pi
C17_Witness ==
  /\ pc = "applied" /\ fn = "signedAngle"
  /\ args.u = Vec(0, 0, 1) /\ args.v = Vec(0, 0, -2) /\ args.n = Vec(-1, -1, -1)
  /\ result = R(2)

\* the tangents of the call are unit vectors, neither parallel nor
\* antiparallel
UnitTangentsThatTurn ==
  /\ REq(Norm(args.t1), One) /\ REq(Norm(args.t2), One)
  /\ ~REq(Norm(Cross(args.t1, args.t2)), Zero)

\* C18: for unit tangents t1, t2 that are neither parallel nor antiparallel,
\* d = parallel_transport(u, t1, t2) has d . t2 = u . t1; so a u that is
\* perpendicular to t1 is transported to a d perpendicular to t2
C18_TransportKeepsTangentPart ==
  (pc = "applied" /\ fn = "parallel_transport" /\ UnitTangentsThatTurn) =>
     /\ Dot(result, args.t2) = Dot(args.u, args.t1)
     /\ Dot(args.u, args.t1) = Zero => Dot(result, args.t2) = Zero

\* (1, 1, 1) has been transported from an oblique tangent of the x-y plane
\* to the z axis: its part 7/5 along the tangent is now its part along z
C18_Witness ==
  /\ pc = "applied" /\ fn = "parallel_transport"
  /\ args.t1 = <<Rat(3, 5), Rat(4, 5), Zero>> /\ args.t2 = Vec(0, 0, 1)
  /\ args.u = Vec(1, 1, 1)
  /\ Dot(result, args.t2) = Rat(7, 5)
  /\ result # args.u

\* C19: for unit tangents t1, t2 that are neither parallel nor antiparallel
\* and any u, transporting u from t1 to t2 and the result back from t2 to t1
\* gives u
C19_TransportRoundTrip ==
  (pc = "back" /\ fn = "parallel_transport" /\ UnitTangentsThatTurn) =>
     result = args.u

\* a vector that the transport from x to an oblique tangent changes has
\* been transported there and back
C19_Witness ==
  /\ pc = "back" /\ fn = "parallel_transport"
  /\ args.t1 = Vec(1, 0, 0) /\ args.t2 = <<Rat(-4, 5), Rat(3, 5), Zero>>
  /\ args.u = Vec(1, -1, 1)
  /\ parallel_transport(args.u, args.t1, args.t2) # args.u
  /\ result = args.u

\* the elements of a set of numbers as a tuple, smallest first
RECURSIVE Sorted(_)
Sorted(S) ==
  IF S = {} THEN <<>>
  ELSE Local([m \in {CHOOSE x \in S : \A y \in S : x <= y} |->
         <<m>> \o Sorted(S \ {m})])

\* the least common multiple of a set of positive numbers
RECURSIVE Lcm(_)
Lcm(S) ==
  IF S = {} THEN 1
  ELSE Local([m \in {CHOOSE x \in S : TRUE} |->
       Local([l \in {Lcm(S \ {m})} |-> (m * l) \div Gcd(m, l)])])

\* a matrix of finite rationals times the least whole number that makes
\* each of its entries whole, as a matrix of integers
Whole(A) ==
  Local([s \in {Lcm({A[i][j][2] : i, j \in DOMAIN A})} |->
    [i \in DOMAIN A |-> [j \in DOMAIN A |-> A[i][j][1] * (s \div A[i][j][2])]]])

\* the determinant of the rows and columns of the integer matrix A that the
\* tuples rows and cols list, expanded along its first row: DetFrom sums the
\* terms of the columns cols[k], cols[k + 1], ...
RECURSIVE DetFrom(_, _, _, _)
DetFrom(A, rows, cols, k) ==
  IF rows = <<>> THEN 1
  ELSE IF k > Len(cols) THEN 0
  ELSE (IF k % 2 = 1 THEN 1 ELSE -1) * A[rows[1]][cols[k]]
         * DetFrom(A, Tail(rows),
                   SubSeq(cols, 1, k - 1) \o SubSeq(cols, k + 1, Len(cols)), 1)
       + DetFrom(A, rows, cols, k + 1)

\* a symmetric matrix is positive semi-definite when none of its principal
\* minors is negative (a positive factor changes no sign)
PositiveSemiDefinite(A) ==
  /\ \A i, j \in DOMAIN A : IsFinite(A[i][j])
  /\ \A S \in (SUBSET DOMAIN A) \ {{}} :
       DetFrom(Whole(A), Sorted(S), Sorted(S), 1) >= 0

\* vectors the quadratic form of a 6 x 6 matrix is evaluated on
TestVectors ==
  { <<a, b, c, d, e, f>> : a \in -1..1, b \in -1..1, c \in -1..1,
                           d \in -1..1, e \in -1..1, f \in -1..1 }

\* the sum of the entries row[0], ..., row[n - 1] of a row of A, each times
\* the whole number x[j + 1]
RECURSIVE RowSum(_, _, _)
RowSum(row, x, n) ==
  IF n = 0 THEN Zero
  ELSE RAdd(RowSum(row, x, n - 1), RMul(R(x[n]), row[n - 1]))

\* x^T A x for a vector x of whole numbers: the sum over the first n rows
RECURSIVE QuadraticForm(_, _, _)
QuadraticForm(A, x, n) ==
  IF n = 0 THEN Zero
  ELSE RAdd(QuadraticForm(A, x, n - 1),
            RMul(R(x[n]), RowSum(A[n - 1], x, Len(x))))

\* the edge of the call of gradEs_hessEs, its length, its tangent and its
\* strain |edge| / L0 - 1
CallEdge == VSub(args.node1, args.node0)

CallEdgeLen == Norm(CallEdge)

CallTangent == VDivide(CallEdge, CallEdgeLen)

CallStrain == RSub(RDiv(CallEdgeLen, args.l_k), One)

\* C20: for an edge with |edge| >= L0 > 0, gradEs_hessEs returns the gradient
\* -EA t eps on the first node and +EA t eps on the second, eps being
\* |edge| / L0 - 1, and a 6 x 6 Hessian of the form [[M, -M], [-M, M]] that is
\* symmetric and positive semi-definite.  (For a Hessian of that form
\* x^T dJ x is (x0 - x1)^T M (x0 - x1), x0 and x1 being the halves of x, so it
\* is positive semi-definite exactly when M is; the quadratic form of dJ
\* itself is evaluated on the vectors with entries -1, 0, 1.)
C20_StretchGradientAndHessian ==
  (pc = "applied" /\ fn = "gradEs_hessEs"
     /\ RLess(Zero, args.l_k) /\ ~RLess(CallEdgeLen, args.l_k)) =>
     /\ \A i \in 1..3 :
          /\ result.dF[i - 1] =
               RNeg(RMul(RMul(args.EA, CallTangent[i]), CallStrain))
          /\ result.dF[i + 2] = RMul(RMul(args.EA, CallTangent[i]), CallStrain)
     /\ \A i, j \in 0..2 :
          /\ result.dJ[i + 3][j + 3] = result.dJ[i][j]
          /\ result.dJ[i][j + 3] = RNeg(result.dJ[i][j])
          /\ result.dJ[i + 3][j] = RNeg(result.dJ[i][j])
     /\ \A i, j \in 0..5 : result.dJ[i][j] = result.dJ[j][i]
     /\ PositiveSemiDefinite([i \in 0..2 |-> [j \in 0..2 |-> result.dJ[i][j]]])
     /\ \A x \in TestVectors :
          ~RLess(QuadraticForm(result.dJ, x, 6), Zero)

\* the edge (3, 4, 0) of rest length 2 with EA = 2: the strain is 3/2, the
\* second node's gradient has the x part 9/5, and the Hessian has entries
\* off its diagonal that differ in sign between the blocks
C20_Witness ==
  /\ pc = "applied" /\ fn = "gradEs_hessEs"
  /\ CallEdge = Vec(3, 4, 0) /\ args.l_k = R(2) /\ args.EA = R(2)
  /\ result.dF[3] = Rat(9, 5) /\ result.dF[0] = Rat(-9, 5)
  /\ result.dJ[0][1] = Rat(24, 125) /\ result.dJ[0][4] = Rat(-24, 125)

\* the interior node c of the rod in args is a valid input of the bending
\* and twisting kernels: its two edges are not zero and do not point against
\* each other, and the material frames of the two edges are orthonormal
ValidTriple(c) ==
  /\ \E e \in {VSub(Slice3(args.q, 4 * c), Slice3(args.q, 4 * c - 4))},
        f \in {VSub(Slice3(args.q, 4 * c + 4), Slice3(args.q, 4 * c))} :
       /\ RLess(Zero, Norm(e)) /\ RLess(Zero, Norm(f))
       /\ ~(REq(Norm(Cross(e, f)), Zero) /\ RLess(Dot(e, f), Zero))
  /\ \A k \in {c - 1, c} :
       /\ REq(Norm(args.m1[k]), One) /\ REq(Norm(args.m2[k]), One)
       /\ REq(Dot(args.m1[k], args.m2[k]), Zero)

\* C21 (as stated): for every valid input the 11 x 11 Hessian gradEb_hessEb
\* returns and the 11 x 11 Hessian gradEt_hessEt returns are symmetric:
\* the entry (i, j) is the entry (j, i)
C21_HessiansSymmetric ==
  fn \in {"getFb", "getFt"} =>
     \A n \in 1..Len(result.calls) :
        ValidTriple(n) =>
           \A i, j \in 0..10 :
              result.calls[n].dJ[i][j] = result.calls[n].dJ[j][i]

\* the numbers of nodes and of DOFs of the rod whose accesses are followed
IdxNodes == (Len0(args.q) + 1) \div 4

IdxDofs == Len0(args.q)

\* C22: with ndof = 4 nv - 1 and nv >= 2, every index that computeTangent,
\* getKappa, getFs, getFb, getFt and theta = q[3::4] read or write lies in
\* 0 .. ndof - 1; what the code takes for the position of node k is at
\* 4k, 4k + 1, 4k + 2 with k a node of the rod, what it takes for the twist
\* of edge k is at 4k + 3 with k an edge of the rod (so no twist entry is
\* used as a coordinate and no coordinate as a twist), and q[3::4] has
\* nv - 1 entries
C22_IndexLayout ==
  (pc \in {"loop", "applied"} /\ IdxDofs = 4 * IdxNodes - 1 /\ IdxNodes >= 2) =>
     /\ \A a \in result.accesses :
          /\ \A i \in DOMAIN a.at : a.at[i] \in 0..(IdxDofs - 1)
          /\ a.of = "node" =>
               a.k \in 0..(IdxNodes - 1)
                 /\ a.at = <<4 * a.k, 4 * a.k + 1, 4 * a.k + 2>>
          /\ a.of = "edge" =>
               a.k \in 0..(IdxNodes - 2) /\ a.at = <<4 * a.k + 3>>
     /\ (fn = "theta" /\ pc = "applied") =>
           /\ result.c = IdxNodes - 1
           /\ Cardinality(result.accesses) = IdxNodes - 1

\* getFt has gone through every interior node of a rod of five nodes: its
\* last iteration reached the last node (16, 17, 18) and the twist of the
\* last edge (15)
C22_Witness ==
  /\ pc = "applied" /\ fn = "getFt" /\ IdxNodes = 5
  /\ NodeAt(<<16, 17, 18>>, 4) \in result.accesses
  /\ TwistAt(15, 3) \in result.accesses
  /\ NodeAt(<<0, 1, 2>>, 0) \in result.accesses

\* the guess of the call of computeReferenceTwist
CallGuess == IF args.refTwist = None THEN Zero ELSE args.refTwist

\* u1 transported from t1 to t2 and then rotated by the guess about t2
CallRotated ==
  Rodrigues(parallel_transport(args.u1, args.t1, args.t2), args.t2, CallGuess)

\* what C23 says of every call: the first call returned the guess plus the
\* signed angle d about t2 from the rotated transported u1 to u2, d lies in
\* (-pi, pi] (above -2 and at most 2 quarter turns), the result is at most pi
\* away from the guess, and it is the guess when the rotated transported u1
\* is u2
ReferenceTwistIsGuessPlusAngle ==
  /\ result.first = RAdd(CallGuess, signedAngle(CallRotated, args.u2, args.t2))
  /\ RLess(R(-2), RSub(result.first, CallGuess))
  /\ ~RLess(R(2), RAbs(RSub(result.first, CallGuess)))
  /\ CallRotated = args.u2 => result.first = CallGuess

\* the tangents are unit vectors and u1, u2 are perpendicular to them, as
\* the directors of a reference frame are
CallFrames ==
  /\ REq(Norm(args.t1), One) /\ REq(Norm(args.t2), One)
  /\ REq(Dot(args.u1, args.t1), Zero) /\ REq(Dot(args.u2, args.t2), Zero)

\* C23 (as stated): computeReferenceTwist returns the guess plus the signed
\* angle, as above, and called again with its own result as the guess it
\* returns the same value, whatever u1, u2, t1, t2 are
C23_ReferenceTwistFixedPoint ==
  (pc = "again" /\ fn = "computeReferenceTwist") =>
     /\ ReferenceTwistIsGuessPlusAngle
     /\ result.again = result.first

\* C23 (amended): computeReferenceTwist returns the guess plus the signed
\* angle, as above; when t1, t2 are unit vectors, u1 is perpendicular to t1
\* and u2 to t2, the function called again with its own result as the guess
\* returns the same value
C23_ReferenceTwistFixedPointOfFrames ==
  (pc = "again" /\ fn = "computeReferenceTwist") =>
     /\ ReferenceTwistIsGuessPlusAngle
     /\ CallFrames => result.again = result.first

\* the director z on the tangent x is taken to the tangent y, where the
\* director of the next edge is z: with the guess of three quarter turns
\* the function returns four, and called again with four, again four
C23_Witness ==
  /\ pc = "again" /\ fn = "computeReferenceTwist"
  /\ args.t1 = Vec(1, 0, 0) /\ args.t2 = Vec(0, 1, 0)
  /\ args.u1 = Vec(0, 0, 1) /\ args.u2 = Vec(0, 0, 1)
  /\ args.refTwist = R(3)
  /\ result.first = R(4)
  /\ CallFrames
  /\ result.first # CallGuess
  /\ result.again = result.first

\* a pass of the loop of objfun has left a residual sum that is NaN
NaNResidual == pc = "while" /\ error # None /\ IsNaN(error)

\* C24: when the sum of the free-DOF residual of a Newton pass is NaN,
\* error > tol is false, so the only step objfun can take, and can take, is
\* to leave the loop and return: q and u hold NaN at every free DOF, the
\* frame of that pass is returned with them, and nothing is raised
C24_NaNResidualIsReturned ==
  /\ [](NaNResidual => ~RGreater(error, tol) /\ ENABLED Return)
  /\ [][NaNResidual =>
          /\ pc' = "ret"
          /\ \A k \in DOMAIN freeIndex :
                /\ IsNaN(returned'.q[freeIndex[k]])
                /\ IsNaN(returned'.u[freeIndex[k]])
          /\ returned'.a1 = a1Iterate /\ returned'.a2 = a2Iterate
          /\ q' = qGuess /\ u' = returned'.u]_vars

\* objfun has returned from a loop that a NaN residual ended, before the
\* last time step
C24_Witness ==
  /\ pc = "ret" /\ IsNaN(error) /\ iter < MaxIter
  /\ \E i \in DOMAIN returned.q : IsNaN(returned.q[i])
  /\ \E i \in DOMAIN u : IsNaN(u[i])

\* a call of initguess is running or has returned
FitCalled == fn = "HW3_JG_2" /\ result.fit # None

\* the loss after the first update of the call is exactly eps
FirstLossIsEps == result.updates >= 1 /\ REq(result.losses[1], eps)

\* C25: a call of initguess whose loss after the first update is not exactly
\* eps leaves the epoch loop at the end of the first epoch, with a single
\* parameter update, and the loss it is judged by is that of this update
\* (a call goes on to a second epoch only when the first loss is eps); the
\* while loop calls initguess again whenever init_loss > eps, however many
\* restarts were made, and ends only with a loss not greater than eps
C25_SingleUpdateAndRestarts ==
  /\ [](FitCalled =>
          /\ pc = "epoch" /\ result.updates = 0 => result.epoch = 0
          /\ pc = "epoch" /\ result.updates >= 1 => FirstLossIsEps
          /\ pc # "epoch" => result.updates >= 1
          /\ result.updates >= 1 /\ ~FirstLossIsEps =>
                /\ pc # "epoch" /\ result.updates = 1 /\ result.epoch = 0
                /\ pc \in {"while", "fitted"} =>
                      result.init_loss = result.losses[1]
          /\ pc \in {"while", "fitted"} =>
                result.init_loss = result.losses[result.updates]
          /\ pc = "fitted" => ~RGreater(result.init_loss, eps))
  /\ [](fn = "HW3_JG_2" /\ pc = "while" /\ RGreater(result.init_loss, eps) =>
          ENABLED initguessCall /\ ~ENABLED RestartsEnd)
  /\ [][fn = "HW3_JG_2" /\ pc = "while" /\ RGreater(result.init_loss, eps) =>
          pc' = "epoch" /\ result'.updates = 0
          /\ result'.previous_loss = Zero]_vars

\* after MaxRestarts restarts a call has returned from its first epoch with
\* a single update and a loss above eps: the next step is one more restart
C25_Witness ==
  /\ fn = "HW3_JG_2" /\ pc = "while" /\ FitCalled
  /\ result.restarts = MaxRestarts
  /\ result.updates = 1 /\ result.epoch = 0
  /\ RGreater(result.init_loss, eps)

====
